---- MODULE Spec2Model ----
(***************************************************************************)
(* Rogue Signal Protocol: the turn-based stealth core of                   *)
(* src/RogueSignalProtocol.py (Game, Player, Enemy, GameMap,               *)
(* ExploitSystem, InputHandler) as a state machine.                        *)
(*                                                                         *)
(* Positions are pairs <<x, y>>.  None is the empty tuple <<>>.            *)
(* Calls to the random module are inputs of the actions.                   *)
(***************************************************************************)
EXTENDS Integers, Sequences, FiniteSets, TLC

VARIABLES walls, shadows, cooling_nodes, cpu_recovery_nodes, data_patches,
          gateway, player, enemies, level, turn, game_over, admin_spawned,
          targeting_mode, targeting_exploit, cursor_position,
          network_scan_turns, equipped_exploits, items, last_cmd, loop

terrain == <<walls, shadows, cooling_nodes, cpu_recovery_nodes, gateway>>
uivars == <<targeting_mode, targeting_exploit, cursor_position>>
vars == <<walls, shadows, cooling_nodes, cpu_recovery_nodes, data_patches,
          gateway, player, enemies, level, turn, game_over, admin_spawned,
          targeting_mode, targeting_exploit, cursor_position,
          network_scan_turns, equipped_exploits, items, last_cmd, loop>>

(***************************************************************************)
(* GameConfig                                                              *)
(***************************************************************************)
MAP_WIDTH == 50
MAP_HEIGHT == 50
MAX_LEVEL == 3

None == <<>>

\* The value of loop while no generation loop is being stepped
NoLoop == [kind |-> "none"]
\* targeting_exploit = None
NoExploit == "none"

Abs(n) == IF n < 0 THEN -n ELSE n
Max2(a, b) == IF a > b THEN a ELSE b
Min2(a, b) == IF a < b THEN a ELSE b

\* GameConfig.ADMIN_SPAWN_THRESHOLDS.get(level, 50)
ADMIN_SPAWN_THRESHOLDS(lv) ==
    CASE lv = 1 -> 90
      [] lv = 2 -> 75
      [] lv = 3 -> 60
      [] OTHER -> 50

\* GameConfig.NETWORK_CONFIGS[level]["enemies"]
NETWORK_ENEMIES(lv) ==
    CASE lv = 1 -> 8
      [] lv = 2 -> 12
      [] OTHER -> 16

(***************************************************************************)
(* Position                                                                *)
(***************************************************************************)
distance_to(a, b) == Max2(Abs(a[1] - b[1]), Abs(a[2] - b[2]))

is_valid(p, width, height) ==
    0 <= p[1] /\ p[1] < width /\ 0 <= p[2] /\ p[2] < height

(***************************************************************************)
(* GameData                                                                *)
(***************************************************************************)
EnemyTypeNames == {"scanner", "patrol", "bot", "firewall", "hunter", "admin"}

ENEMY_TYPES(t) ==
    CASE t = "scanner"  -> [cpu |-> 20,  vision |-> 2, movement |-> "static", damage |-> 10]
      [] t = "patrol"   -> [cpu |-> 25,  vision |-> 3, movement |-> "linear", damage |-> 15]
      [] t = "bot"      -> [cpu |-> 15,  vision |-> 2, movement |-> "random", damage |-> 8]
      [] t = "firewall" -> [cpu |-> 40,  vision |-> 1, movement |-> "static", damage |-> 20]
      [] t = "hunter"   -> [cpu |-> 35,  vision |-> 5, movement |-> "seek",   damage |-> 25]
      [] t = "admin"    -> [cpu |-> 100, vision |-> 6, movement |-> "track",  damage |-> 40]

ExploitKeys == {"shadow_step", "data_mimic", "noise_maker", "buffer_overflow",
                "code_injection", "system_crash", "network_scan", "log_wiper",
                "emp_burst"}

EXPLOITS(k) ==
    CASE k = "shadow_step"     -> [ram |-> 2, heat |-> 20, range |-> 8, targeting |-> "single"]
      [] k = "data_mimic"      -> [ram |-> 1, heat |-> 15, range |-> 0, targeting |-> "none"]
      [] k = "noise_maker"     -> [ram |-> 1, heat |-> 10, range |-> 6, targeting |-> "single"]
      [] k = "buffer_overflow" -> [ram |-> 2, heat |-> 25, range |-> 1, targeting |-> "single"]
      [] k = "code_injection"  -> [ram |-> 1, heat |-> 15, range |-> 4, targeting |-> "single"]
      [] k = "system_crash"    -> [ram |-> 3, heat |-> 35, range |-> 3, targeting |-> "area"]
      [] k = "network_scan"    -> [ram |-> 1, heat |-> 10, range |-> 8, targeting |-> "none"]
      [] k = "log_wiper"       -> [ram |-> 1, heat |-> 5,  range |-> 0, targeting |-> "none"]
      [] k = "emp_burst"       -> [ram |-> 3, heat |-> 40, range |-> 2, targeting |-> "area"]

(***************************************************************************)
(* GameMap                                                                 *)
(***************************************************************************)
is_wall(w, p) ==
    IF ~is_valid(p, MAP_WIDTH, MAP_HEIGHT) THEN TRUE ELSE p \in w

is_shadow(s, p) ==
    IF ~is_valid(p, MAP_WIDTH, MAP_HEIGHT) THEN FALSE ELSE p \in s

is_valid_position(w, p) ==
    is_valid(p, MAP_WIDTH, MAP_HEIGHT) /\ ~is_wall(w, p)

\* The Bresenham loop of has_line_of_sight, one iteration per call.
RECURSIVE los_loop(_, _, _, _, _, _, _, _, _)
los_loop(w, x, y, err, dx, dy, sx, sy, end) ==
    IF x = end[1] /\ y = end[2] THEN TRUE
    ELSE IF is_wall(w, <<x, y>>) THEN FALSE
    ELSE LET e2 == 2 * err
             stepx == e2 > -dy
             err1 == IF stepx THEN err - dy ELSE err
             x1 == IF stepx THEN x + sx ELSE x
             stepy == e2 < dx
             err2 == IF stepy THEN err1 + dx ELSE err1
             y1 == IF stepy THEN y + sy ELSE y
         IN los_loop(w, x1, y1, err2, dx, dy, sx, sy, end)

has_line_of_sight(w, start, end) ==
    IF ~(is_valid(start, MAP_WIDTH, MAP_HEIGHT) /\ is_valid(end, MAP_WIDTH, MAP_HEIGHT))
    THEN FALSE
    ELSE LET dx == Abs(end[1] - start[1])
             dy == Abs(end[2] - start[2])
             sx == IF start[1] < end[1] THEN 1 ELSE -1
             sy == IF start[2] < end[2] THEN 1 ELSE -1
         IN los_loop(w, start[1], start[2], dx - dy, dx, dy, sx, sy, end)

(***************************************************************************)
(* Player                                                                  *)
(***************************************************************************)
MAX_CPU == 100

NoEffects == [data_mimic_turns |-> 0, speed_boost_turns |-> 0,
              enhanced_vision_turns |-> 0, exploit_efficiency_turns |-> 0]

\* Player.update_effects
update_effects(eff) ==
    [k \in DOMAIN eff |-> Max2(0, eff[k] - 1)]

\* Player.is_invisible
is_invisible(p) == p.effects.data_mimic_turns > 0

\* Player.take_damage without min(damage, cpu)
take_damage_unclamped(p, damage) ==
    [p EXCEPT !.cpu = p.cpu - damage]

\* Player.take_damage
take_damage(p, damage) ==
    [p EXCEPT !.cpu = p.cpu - Min2(damage, p.cpu)]

(***************************************************************************)
(* Enemy                                                                   *)
(***************************************************************************)
\* Enemy.__init__
NewEnemy(pos, t) ==
    [position |-> pos, type |-> t, cpu |-> ENEMY_TYPES(t).cpu,
     state |-> "unaware", alert_timer |-> 0, disabled_turns |-> 0,
     move_cooldown |-> 0, patrol_points |-> <<>>, patrol_index |-> 0,
     last_seen_player |-> None]

\* can_see_player without the test of Player.is_invisible
can_see_player_ignoring_invisibility(e, p, w, s) ==
    IF e.disabled_turns > 0 THEN FALSE
    ELSE IF distance_to(e.position, p.position) > ENEMY_TYPES(e.type).vision THEN FALSE
    ELSE IF is_shadow(s, p.position) THEN FALSE
    ELSE has_line_of_sight(w, e.position, p.position)

\* Enemy.can_see_player
can_see_player(e, p, w, s) ==
    IF e.disabled_turns > 0 THEN FALSE
    ELSE IF distance_to(e.position, p.position) > ENEMY_TYPES(e.type).vision THEN FALSE
    ELSE IF is_invisible(p) THEN FALSE
    ELSE IF is_shadow(s, p.position) THEN FALSE
    ELSE has_line_of_sight(w, e.position, p.position)

\* Enemy.can_attack_player
can_attack_player(e, p) ==
    distance_to(e.position, p.position) <= 1 /\ e.disabled_turns = 0


\* _reset_movement_cooldown giving every enemy the cooldown of a patrol
reset_movement_cooldown_always_one(e) == 1

\* Enemy._reset_movement_cooldown
reset_movement_cooldown(e) ==
    IF ENEMY_TYPES(e.type).movement = "linear" THEN 1 ELSE 2

\* The acceptance test without the comparison with the player's position
step_ok_onto_player(w, p, np) ==
    /\ is_valid(np, MAP_WIDTH, MAP_HEIGHT)
    /\ is_valid_position(w, np)

\* The acceptance test shared by _move_toward and _move_random.
step_ok(w, p, np) ==
    /\ is_valid(np, MAP_WIDTH, MAP_HEIGHT)
    /\ is_valid_position(w, np)
    /\ ~(distance_to(np, p.position) = 0)

\* First element of a list of deltas that is an acceptable step, or <<0, 0>>.
RECURSIVE first_step(_, _, _, _, _)
first_step(attempts, i, e, w, p) ==
    IF i > Len(attempts) THEN <<0, 0>>
    ELSE LET d == attempts[i]
             np == <<e.position[1] + d[1], e.position[2] + d[2]>>
         IN IF d # <<0, 0>> /\ step_ok(w, p, np) THEN d
            ELSE first_step(attempts, i + 1, e, w, p)

\* Enemy._move_toward
move_toward(e, target, w, p) ==
    IF ~is_valid(target, MAP_WIDTH, MAP_HEIGHT) THEN e
    ELSE LET dx == IF e.position[1] = target[1] THEN 0
                   ELSE IF target[1] > e.position[1] THEN 1 ELSE -1
             dy == IF e.position[2] = target[2] THEN 0
                   ELSE IF target[2] > e.position[2] THEN 1 ELSE -1
             move_attempts == << <<dx, dy>>, <<dx, 0>>, <<0, dy>>, <<dx, -dy>>,
                                 <<-dx, dy>>, <<-dx, 0>>, <<0, -dy>>, <<-dx, -dy>> >>
             d == first_step(move_attempts, 1, e, w, p)
         IN [e EXCEPT !.position = <<e.position[1] + d[1], e.position[2] + d[2]>>]

DIRECTIONS == << <<0, -1>>, <<1, -1>>, <<1, 0>>, <<1, 1>>,
                 <<0, 1>>, <<-1, 1>>, <<-1, 0>>, <<-1, -1>> >>

\* random.shuffle(directions): the shuffles considered are the 8 rotations of
\* the list, which make every direction the first one tried.
shuffled(rot) == [i \in 1..8 |-> DIRECTIONS[((i - 1 + rot) % 8) + 1]]

\* Enemy._move_random
move_random(e, w, p, rot) ==
    IF e.state = "hostile" THEN move_toward(e, p.position, w, p)
    ELSE LET d == first_step(shuffled(rot), 1, e, w, p)
         IN [e EXCEPT !.position = <<e.position[1] + d[1], e.position[2] + d[2]>>]

\* _move_patrol advancing the index only on the waypoint itself
move_patrol_on_exact_arrival(e, w, p) ==
    IF e.state = "hostile" THEN move_toward(e, p.position, w, p)
    ELSE IF e.patrol_points = <<>> THEN e
    ELSE LET near == distance_to(e.position, e.patrol_points[e.patrol_index + 1]) <= 0
             idx == IF near THEN (e.patrol_index + 1) % Len(e.patrol_points)
                    ELSE e.patrol_index
             e1 == [e EXCEPT !.patrol_index = idx]
         IN move_toward(e1, e1.patrol_points[idx + 1], w, p)

\* Enemy._move_patrol (patrol_index is 0-based as in the source)
move_patrol(e, w, p) ==
    IF e.state = "hostile" THEN move_toward(e, p.position, w, p)
    ELSE IF e.patrol_points = <<>> THEN e
    ELSE LET near == distance_to(e.position, e.patrol_points[e.patrol_index + 1]) <= 1
             idx == IF near THEN (e.patrol_index + 1) % Len(e.patrol_points)
                    ELSE e.patrol_index
             e1 == [e EXCEPT !.patrol_index = idx]
         IN move_toward(e1, e1.patrol_points[idx + 1], w, p)

\* Enemy.move with SEEK and TRACK enemies moving whatever their state
enemy_move_in_any_state(e, w, p, rot) ==
    IF e.disabled_turns > 0 THEN [e EXCEPT !.disabled_turns = @ - 1]
    ELSE IF e.move_cooldown - 1 > 0 THEN [e EXCEPT !.move_cooldown = @ - 1]
    ELSE LET e1 == [e EXCEPT !.move_cooldown = reset_movement_cooldown(e)]
             mv == ENEMY_TYPES(e.type).movement
         IN CASE mv = "static" -> e1
              [] mv = "random" -> move_random(e1, w, p, rot)
              [] mv = "linear" -> IF e1.patrol_points # <<>>
                                  THEN move_patrol(e1, w, p) ELSE e1
              [] mv = "seek"   -> IF e1.last_seen_player # None
                                  THEN move_toward(e1, e1.last_seen_player, w, p)
                                  ELSE e1
              [] mv = "track"  -> move_toward(e1, p.position, w, p)

\* Enemy.move
enemy_move(e, w, p, rot) ==
    IF e.disabled_turns > 0 THEN [e EXCEPT !.disabled_turns = @ - 1]
    ELSE IF e.move_cooldown - 1 > 0 THEN [e EXCEPT !.move_cooldown = @ - 1]
    ELSE LET e1 == [e EXCEPT !.move_cooldown = reset_movement_cooldown(e)]
             mv == ENEMY_TYPES(e.type).movement
         IN CASE mv = "static" -> e1
              [] mv = "random" -> move_random(e1, w, p, rot)
              [] mv = "linear" -> IF e1.patrol_points # <<>>
                                  THEN move_patrol(e1, w, p) ELSE e1
              [] mv = "seek"   -> IF e1.state = "hostile" /\ e1.last_seen_player # None
                                  THEN move_toward(e1, e1.last_seen_player, w, p)
                                  ELSE e1
              [] mv = "track"  -> IF e1.state = "hostile"
                                  THEN move_toward(e1, p.position, w, p)
                                  ELSE e1

(***************************************************************************)
(* Game: the per-turn awareness check.  The operators work on a record g   *)
(* of the mutable game fields: player, enemies, turn, data_patches, items, *)
(* network_scan_turns, admin_spawned.                                      *)
(***************************************************************************)
\* _handle_enemy_sees_player without min(100, ...)
handle_enemy_sees_player_unclamped(e, p) ==
    CASE e.state = "unaware" ->
           [enemy |-> [e EXCEPT !.state = "alert", !.alert_timer = 3],
            detection |-> p.detection]
      [] e.state = "alert" ->
           IF e.alert_timer - 1 <= 0
           THEN [enemy |-> [e EXCEPT !.alert_timer = @ - 1, !.state = "hostile",
                                     !.last_seen_player = p.position],
                 detection |-> p.detection + (IF e.type = "admin" THEN 15 ELSE 10)]
           ELSE [enemy |-> [e EXCEPT !.alert_timer = @ - 1], detection |-> p.detection]
      [] e.state = "hostile" ->
           [enemy |-> [e EXCEPT !.last_seen_player = p.position],
            detection |-> p.detection + (IF e.type = "admin" THEN 3 ELSE 1)]

\* _handle_enemy_sees_player with the UNAWARE branch going straight to HOSTILE
handle_enemy_sees_player_at_once(e, p) ==
    CASE e.state \in {"unaware", "alert"} ->
           IF e.state = "unaware" \/ e.alert_timer - 1 <= 0
           THEN [enemy |-> [e EXCEPT !.alert_timer = 0, !.state = "hostile",
                                     !.last_seen_player = p.position],
                 detection |-> Min2(100, p.detection + (IF e.type = "admin" THEN 15 ELSE 10))]
           ELSE [enemy |-> [e EXCEPT !.alert_timer = @ - 1], detection |-> p.detection]
      [] e.state = "hostile" ->
           [enemy |-> [e EXCEPT !.last_seen_player = p.position],
            detection |-> Min2(100, p.detection + (IF e.type = "admin" THEN 3 ELSE 1))]

\* Game._handle_enemy_sees_player: the enemy and the detection value after.
handle_enemy_sees_player(e, p) ==
    CASE e.state = "unaware" ->
           [enemy |-> [e EXCEPT !.state = "alert", !.alert_timer = 3],
            detection |-> p.detection]
      [] e.state = "alert" ->
           IF e.alert_timer - 1 <= 0
           THEN [enemy |-> [e EXCEPT !.alert_timer = @ - 1, !.state = "hostile",
                                     !.last_seen_player = p.position],
                 detection |-> Min2(100, p.detection + (IF e.type = "admin" THEN 15 ELSE 10))]
           ELSE [enemy |-> [e EXCEPT !.alert_timer = @ - 1], detection |-> p.detection]
      [] e.state = "hostile" ->
           [enemy |-> [e EXCEPT !.last_seen_player = p.position],
            detection |-> Min2(100, p.detection + (IF e.type = "admin" THEN 3 ELSE 1))]

\* handle_enemy_loses_player treating the admin like every other enemy
handle_enemy_loses_player_admin_calms(e, roll) ==
    CASE e.state = "alert" ->
           IF e.alert_timer - 1 <= 0
           THEN [e EXCEPT !.alert_timer = @ - 1, !.state = "unaware"]
           ELSE [e EXCEPT !.alert_timer = @ - 1]
      [] e.state = "hostile" ->
           IF roll THEN [e EXCEPT !.state = "unaware", !.last_seen_player = None]
           ELSE e
      [] OTHER -> e

\* Game._handle_enemy_loses_player; roll is the outcome of random.random() < 0.15
handle_enemy_loses_player(e, roll) ==
    CASE e.state = "alert" ->
           IF e.alert_timer - 1 <= 0
           THEN [e EXCEPT !.alert_timer = @ - 1, !.state = "unaware"]
           ELSE [e EXCEPT !.alert_timer = @ - 1]
      [] e.state = "hostile" ->
           IF roll
           THEN IF e.type = "admin"
                THEN [e EXCEPT !.state = "alert", !.alert_timer = 5]
                ELSE [e EXCEPT !.state = "unaware", !.last_seen_player = None]
           ELSE e
      [] OTHER -> e

\* Game._update_enemy_awareness, enemies i..Len in list order.
RECURSIVE update_enemy_awareness(_, _, _, _, _, _)
update_enemy_awareness(es, p, i, w, s, rolls) ==
    IF i > Len(es) THEN [enemies |-> es, player |-> p]
    ELSE IF can_see_player(es[i], p, w, s)
         THEN LET r == handle_enemy_sees_player(es[i], p)
              IN update_enemy_awareness([es EXCEPT ![i] = r.enemy],
                                        [p EXCEPT !.detection = r.detection],
                                        i + 1, w, s, rolls)
         ELSE update_enemy_awareness(
                  [es EXCEPT ![i] = handle_enemy_loses_player(
                                        es[i], IF i \in DOMAIN rolls THEN rolls[i] ELSE FALSE)],
                  p, i + 1, w, s, rolls)

\* Game._move_enemies
move_enemies(es, p, w, rots) ==
    [i \in DOMAIN es |-> enemy_move(es[i], w, p, IF i \in DOMAIN rots THEN rots[i] ELSE 0)]

\* Game._process_enemy_attacks, enemies i..Len in list order.
RECURSIVE process_enemy_attacks(_, _, _)
process_enemy_attacks(es, p, i) ==
    IF i > Len(es) THEN p
    ELSE IF can_attack_player(es[i], p)
         THEN process_enemy_attacks(es, take_damage(p, ENEMY_TYPES(es[i].type).damage), i + 1)
         ELSE process_enemy_attacks(es, p, i + 1)

\* _update_enemies with the enemies moved before the awareness check
update_enemies_moving_first(g, w, s, rolls, rots) ==
    LET moved == move_enemies(g.enemies, g.player, w, rots)
        a == update_enemy_awareness(moved, g.player, 1, w, s, rolls)
        p2 == process_enemy_attacks(a.enemies, a.player, 1)
    IN [g EXCEPT !.enemies = a.enemies, !.player = p2]

\* Game._update_enemies
update_enemies(g, w, s, rolls, rots) ==
    LET a == update_enemy_awareness(g.enemies, g.player, 1, w, s, rolls)
        moved == move_enemies(a.enemies, a.player, w, rots)
        p2 == process_enemy_attacks(moved, a.player, 1)
    IN [g EXCEPT !.enemies = moved, !.player = p2]

\* Game._get_enemy_at: the index of the first enemy at pos, 0 for None.
get_enemy_at(es, pos) ==
    IF \E i \in DOMAIN es : distance_to(es[i].position, pos) = 0
    THEN CHOOSE i \in DOMAIN es :
            /\ distance_to(es[i].position, pos) = 0
            /\ \A j \in DOMAIN es : distance_to(es[j].position, pos) = 0 => i <= j
    ELSE 0


(***************************************************************************)
(* Game.process_turn                                                       *)
(***************************************************************************)
\* Game._update_network_scan
update_network_scan(n) == IF n > 0 THEN n - 1 ELSE n

\* Game._process_special_tiles
process_special_tiles(g) ==
    LET pos == g.player.position
        p1 == IF pos \in cooling_nodes
              THEN [g.player EXCEPT !.heat = Max2(0, @ - 20)] ELSE g.player
        p2 == IF pos \in cpu_recovery_nodes
              THEN [p1 EXCEPT !.cpu = @ + Min2(20, MAX_CPU - p1.cpu)] ELSE p1
    IN IF pos \in DOMAIN g.data_patches
       THEN [g EXCEPT !.player = p2,
                      !.items = Append(@, [item_type |-> "data_patch",
                                           effect |-> g.data_patches[pos]]),
                      !.data_patches = [q \in (DOMAIN g.data_patches) \ {pos}
                                           |-> g.data_patches[q]]]
       ELSE [g EXCEPT !.player = p2]

\* process_turn up to and including _process_special_tiles
turn_begin(g) ==
    LET eff == update_effects(g.player.effects)
        heat_reduction == IF eff.exploit_efficiency_turns > 0 THEN 3 ELSE 2
        g1 == [g EXCEPT !.turn = @ + 1,
                        !.player.effects = eff,
                        !.player.heat = Max2(0, @ - heat_reduction),
                        !.network_scan_turns = update_network_scan(@)]
    IN process_special_tiles(g1)

\* The tests of one candidate in Game._find_admin_spawn_position
admin_candidate_ok(g, pos) ==
    /\ is_valid_position(walls, pos)
    /\ distance_to(pos, g.player.position) > 15
    /\ get_enemy_at(g.enemies, pos) = 0
    /\ pos \notin DOMAIN g.data_patches
    /\ pos \notin cooling_nodes
    /\ pos \notin cpu_recovery_nodes

\* Game._find_admin_spawn_position; draws are the random candidates that
\* precede the first accepted one (the rest of the 50 tries being rejected).
RECURSIVE find_admin_spawn_position(_, _, _)
find_admin_spawn_position(g, draws, i) ==
    IF i > Len(draws)
    THEN LET fallback == <<MAP_WIDTH - 10, MAP_HEIGHT - 10>>
         IN IF is_valid_position(walls, fallback) THEN fallback ELSE <<40, 40>>
    ELSE IF admin_candidate_ok(g, draws[i]) THEN draws[i]
         ELSE find_admin_spawn_position(g, draws, i + 1)

\* Game._spawn_admin_avatar
spawn_admin_avatar(g, draws) ==
    IF g.admin_spawned THEN g
    ELSE LET pos == find_admin_spawn_position(g, draws, 1)
             admin == [NewEnemy(pos, "admin") EXCEPT
                          !.state = "hostile",
                          !.last_seen_player = g.player.position]
         IN [g EXCEPT !.enemies = Append(@, admin), !.admin_spawned = TRUE]

\* The condition of _check_admin_spawn without the threshold
admin_spawn_due_at_any_detection(g) ==
    /\ ~g.admin_spawned
    /\ ~(\E i \in DOMAIN g.enemies : g.enemies[i].type = "admin")

\* The condition of Game._check_admin_spawn
admin_spawn_due(g) ==
    /\ g.player.detection >= ADMIN_SPAWN_THRESHOLDS(level)
    /\ ~g.admin_spawned
    /\ ~(\E i \in DOMAIN g.enemies : g.enemies[i].type = "admin")

\* Game._check_admin_spawn
check_admin_spawn(g, draws) ==
    IF admin_spawn_due(g) THEN spawn_admin_avatar(g, draws) ELSE g

\* The passive increase of process_turn applied on every turn
passive_detection_every_turn(g) ==
    [g EXCEPT !.player.detection = Min2(100, @ + 1)]

\* The passive detection increase that ends process_turn
passive_detection(g) ==
    IF g.turn % 15 = 0
    THEN [g EXCEPT !.player.detection = Min2(100, @ + 1)]
    ELSE g

\* Inputs of one process_turn: the outcomes of the calls to random.
RollIdx(g) == {i \in DOMAIN g.enemies : g.enemies[i].state = "hostile"}
RotIdx(g) == {i \in DOMAIN g.enemies :
                 /\ ENEMY_TYPES(g.enemies[i].type).movement = "random"
                 /\ g.enemies[i].disabled_turns = 0
                 /\ g.enemies[i].move_cooldown - 1 <= 0}
AdminDraws == { <<>>, << <<30, 5>> >>, << <<5, 30>> >>, << <<40, 39>>, <<30, 30>> >> }

\* Game.process_turn: the set of states it can end in.
process_turn(g) ==
    UNION { UNION { LET g2 == update_enemies(turn_begin(g), walls, shadows, rolls, rots)
                    IN { passive_detection(check_admin_spawn(g2, draws)) :
                           draws \in IF admin_spawn_due(g2) THEN AdminDraws ELSE {<<>>} }
                    : rots \in [RotIdx(g) -> 0..7] }
            : rolls \in [RollIdx(g) -> BOOLEAN] }


(***************************************************************************)
(* Level generation.  Every loop that samples random candidates is a fold  *)
(* over the sequence of candidates drawn (its draws); a loop that runs out *)
(* of draws stands for the attempt cap being reached with every further    *)
(* candidate rejected.                                                     *)
(***************************************************************************)
SPAWN == <<5, 5>>

\* Game._create_border_walls
create_border_walls ==
    {<<x, 0>> : x \in 0..(MAP_WIDTH - 1)} \cup
    {<<x, MAP_HEIGHT - 1>> : x \in 0..(MAP_WIDTH - 1)} \cup
    {<<0, y>> : y \in 0..(MAP_HEIGHT - 1)} \cup
    {<<MAP_WIDTH - 1, y>> : y \in 0..(MAP_HEIGHT - 1)}

\* _is_room_valid without the test that keeps the spawn area clear
is_room_valid_near_spawn(r, existing_rooms) ==
    \A k \in DOMAIN existing_rooms :
        LET e == existing_rooms[k]
        IN ~(/\ r[1] < e[1] + e[3] + 2 /\ r[1] + r[3] + 2 > e[1]
             /\ r[2] < e[2] + e[4] + 2 /\ r[2] + r[4] + 2 > e[2])

\* A room is <<x, y, w, h>>.  Game._is_room_valid
is_room_valid(r, existing_rooms) ==
    /\ \A k \in DOMAIN existing_rooms :
          LET e == existing_rooms[k]
          IN ~(/\ r[1] < e[1] + e[3] + 2 /\ r[1] + r[3] + 2 > e[1]
               /\ r[2] < e[2] + e[4] + 2 /\ r[2] + r[4] + 2 > e[2])
    /\ ~(r[1] < 10 /\ r[2] < 10)

\* Game._create_room: the wall cells of the room's outline
create_room(r) ==
    {c \in ({<<r[1] + i, r[2]>> : i \in 0..(r[3] - 1)} \cup
            {<<r[1] + i, r[2] + r[4] - 1>> : i \in 0..(r[3] - 1)} \cup
            {<<r[1], r[2] + i>> : i \in 0..(r[4] - 1)} \cup
            {<<r[1] + r[3] - 1, r[2] + i>> : i \in 0..(r[4] - 1)}) :
        is_valid(c, MAP_WIDTH, MAP_HEIGHT)}

\* Game._generate_rooms: the accepted rooms, in order
RECURSIVE generate_rooms(_, _, _, _)
generate_rooms(lv, draws, i, rooms) ==
    IF ~(Len(rooms) < 6 + lv * 2 /\ i <= Len(draws) /\ i <= 200) THEN rooms
    ELSE IF is_room_valid(draws[i], rooms)
         THEN generate_rooms(lv, draws, i + 1, Append(rooms, draws[i]))
         ELSE generate_rooms(lv, draws, i + 1, rooms)

\* _create_corridor with the horizontal run started at the map's edge
create_corridor_from_edge(x1, y1, x2, y2) ==
    {c \in ({<<x, y1>> : x \in 0..Max2(x1, x2)} \cup
            {<<x2, y>> : y \in Min2(y1, y2)..Max2(y1, y2)}) :
        is_valid(c, MAP_WIDTH, MAP_HEIGHT)}

\* Game._create_corridor: the cells it clears
create_corridor(x1, y1, x2, y2) ==
    {c \in ({<<x, y1>> : x \in Min2(x1, x2)..Max2(x1, x2)} \cup
            {<<x2, y>> : y \in Min2(y1, y2)..Max2(y1, y2)}) :
        is_valid(c, MAP_WIDTH, MAP_HEIGHT)}

room_center(r) == <<r[1] + (r[3] \div 2), r[2] + (r[4] \div 2)>>

\* Game._connect_rooms: the cells cleared by all corridors
connect_rooms(rooms) ==
    UNION { LET a == room_center(rooms[i])
                b == room_center(rooms[i + 1])
            IN create_corridor(a[1], a[2], b[1], a[2]) \cup
               create_corridor(b[1], a[2], b[1], b[2])
            : i \in 1..(Len(rooms) - 1) }

\* Game._generate_shadows: draws are the cells center + offset sampled
generate_shadows(w, draws) ==
    {draws[i] : i \in {j \in DOMAIN draws :
                          /\ is_valid(draws[j], MAP_WIDTH, MAP_HEIGHT)
                          /\ ~is_wall(w, draws[j])}}

\* Game._is_valid_special_placement
is_valid_special_placement(m, pos) ==
    /\ ~is_wall(m.walls, pos)
    /\ pos \notin m.cooling_nodes
    /\ pos \notin m.cpu_recovery_nodes
    /\ distance_to(pos, SPAWN) > 8

\* Game._place_special_nodes: a draw is [pos, cooling]
RECURSIVE place_special_nodes(_, _, _, _, _)
place_special_nodes(lv, m, draws, i, placed) ==
    IF ~(placed < 4 + lv /\ i <= Len(draws) /\ i <= 100) THEN m
    ELSE IF is_valid_special_placement(m, draws[i].pos)
         THEN place_special_nodes(lv,
                  IF draws[i].cooling
                  THEN [m EXCEPT !.cooling_nodes = @ \cup {draws[i].pos}]
                  ELSE [m EXCEPT !.cpu_recovery_nodes = @ \cup {draws[i].pos}],
                  draws, i + 1, placed + 1)
         ELSE place_special_nodes(lv, m, draws, i + 1, placed)

\* Game._is_valid_patch_placement
is_valid_patch_placement(m, pos) ==
    /\ ~is_wall(m.walls, pos)
    /\ pos \notin DOMAIN m.data_patches
    /\ pos \notin m.cooling_nodes
    /\ pos \notin m.cpu_recovery_nodes
    /\ distance_to(pos, SPAWN) > 5

\* Game._place_data_patches: a draw is [pos, effect]
RECURSIVE place_data_patches(_, _, _, _, _)
place_data_patches(lv, m, draws, i, placed) ==
    IF ~(placed < 6 + lv * 2 /\ i <= Len(draws) /\ i <= 150) THEN m
    ELSE IF is_valid_patch_placement(m, draws[i].pos)
         THEN place_data_patches(lv,
                  [m EXCEPT !.data_patches =
                       [q \in (DOMAIN @) \cup {draws[i].pos} |->
                            IF q = draws[i].pos THEN draws[i].effect ELSE @[q]]],
                  draws, i + 1, placed + 1)
         ELSE place_data_patches(lv, m, draws, i + 1, placed)

\* Game._is_valid_enemy_placement
is_valid_enemy_placement(m, pos) ==
    /\ is_valid_position(m.walls, pos)
    /\ distance_to(pos, SPAWN) > 12
    /\ get_enemy_at(m.enemies, pos) = 0
    /\ pos \notin DOMAIN m.data_patches
    /\ pos \notin m.cooling_nodes
    /\ pos \notin m.cpu_recovery_nodes

\* One leg of Game._generate_patrol_route: the first acceptable step of the
\* leg's draws (a draw is the <<dx, dy>> offset), or current when none is.
RECURSIVE patrol_leg(_, _, _, _)
patrol_leg(w, current, tries, i) ==
    IF ~(i <= Len(tries) /\ i <= 30) THEN current
    ELSE LET new_pos == <<current[1] + tries[i][1], current[2] + tries[i][2]>>
         IN IF /\ is_valid(new_pos, MAP_WIDTH - 3, MAP_HEIGHT - 3)
               /\ new_pos[1] >= 3 /\ new_pos[2] >= 3
               /\ is_valid_position(w, new_pos)
            THEN new_pos
            ELSE patrol_leg(w, current, tries, i + 1)

RECURSIVE patrol_legs(_, _, _, _)
patrol_legs(w, route, legs, k) ==
    IF k > Len(legs) THEN route
    ELSE LET current == route[Len(route)]
             nxt == patrol_leg(w, current, legs[k], 1)
         IN patrol_legs(w, IF nxt = current THEN route ELSE Append(route, nxt),
                        legs, k + 1)

\* Game._generate_patrol_route: legs holds the draws of the route_length - 1 legs
generate_patrol_route(w, start, legs) ==
    LET route == patrol_legs(w, <<start>>, legs, 1)
        r1 == IF Len(route) < 3 /\ start[1] < MAP_WIDTH - 5
              THEN Append(route, <<start[1] + 3, start[2]>>) ELSE route
        r2 == IF Len(route) < 3 /\ start[2] < MAP_HEIGHT - 5
              THEN Append(r1, <<start[1], start[2] + 3>>) ELSE r1
    IN r2

\* Game._place_enemies: a draw is [pos, type, legs]
RECURSIVE place_enemies(_, _, _, _, _)
place_enemies(enemy_count, m, draws, i, placed) ==
    IF ~(placed < enemy_count /\ i <= Len(draws) /\ i <= enemy_count * 20) THEN m
    ELSE IF is_valid_enemy_placement(m, draws[i].pos)
         THEN LET e0 == NewEnemy(draws[i].pos, draws[i].type)
                  e == IF draws[i].type = "patrol"
                       THEN [e0 EXCEPT !.patrol_points =
                                generate_patrol_route(m.walls, draws[i].pos, draws[i].legs)]
                       ELSE e0
              IN place_enemies(enemy_count, [m EXCEPT !.enemies = Append(@, e)],
                               draws, i + 1, placed + 1)
         ELSE place_enemies(enemy_count, m, draws, i + 1, placed)

\* Game._is_valid_gateway_placement
is_valid_gateway_placement(m, pos) ==
    /\ is_valid_position(m.walls, pos)
    /\ distance_to(pos, SPAWN) > 25
    /\ pos \notin DOMAIN m.data_patches
    /\ pos \notin m.cooling_nodes
    /\ pos \notin m.cpu_recovery_nodes
    /\ get_enemy_at(m.enemies, pos) = 0

\* The fallback cells of Game._place_gateway in the order the loops visit them
gateway_fallback_order ==
    [k \in 1..25 |-> <<MAP_WIDTH - 10 + ((k - 1) \div 5), MAP_HEIGHT - 10 + ((k - 1) % 5)>>]

\* _place_gateway without its fallback loops
place_gateway_without_fallback(m, rooms) ==
    LET good == {k \in DOMAIN rooms : is_valid_gateway_placement(m, room_center(rooms[k]))}
    IN IF good # {}
       THEN [m EXCEPT !.gateway = room_center(rooms[CHOOSE k \in good : \A j \in good : k <= j])]
       ELSE m

\* Game._place_gateway; the gateway keeps its old value when nothing is found
place_gateway(m, rooms) ==
    LET good == {k \in DOMAIN rooms : is_valid_gateway_placement(m, room_center(rooms[k]))}
        fb == {k \in 1..25 : is_valid_position(m.walls, gateway_fallback_order[k])}
    IN IF good # {}
       THEN [m EXCEPT !.gateway = room_center(rooms[CHOOSE k \in good : \A j \in good : k <= j])]
       ELSE IF fb # {}
            THEN [m EXCEPT !.gateway = gateway_fallback_order[CHOOSE k \in fb : \A j \in fb : k <= j]]
            ELSE m

\* The map part of Game._generate_procedural_level (lines 1072-1082) for the
\* draws of one seed; old_gateway is the gateway before the call.
generate_map(lv, seed, old_gateway) ==
    LET rooms == generate_rooms(lv, seed.rooms, 1, <<>>)
        room_walls == UNION {create_room(rooms[k]) : k \in DOMAIN rooms}
        w == (create_border_walls \cup room_walls) \ connect_rooms(rooms)
        m0 == [walls |-> w, shadows |-> generate_shadows(w, seed.shadows),
               cooling_nodes |-> {}, cpu_recovery_nodes |-> {},
               data_patches |-> <<>>, enemies |-> <<>>, gateway |-> old_gateway,
               rooms |-> rooms]
        m1 == place_special_nodes(lv, m0, seed.nodes, 1, 0)
        m2 == place_data_patches(lv, m1, seed.patches, 1, 0)
        m3 == place_enemies(NETWORK_ENEMIES(lv), m2, seed.enemies, 1, 0)
    IN place_gateway(m3, rooms)

\* Game._reset_player_state followed by lines 1086-1087
reset_player_state(p) ==
    LET p1 == [p EXCEPT !.position = SPAWN, !.cpu = MAX_CPU, !.heat = 0,
                        !.detection = 0, !.effects = NoEffects]
    IN [p1 EXCEPT !.detection = Max2(0, @ - 20), !.heat = Max2(0, @ - 30)]


(***************************************************************************)
(* ExploitSystem                                                           *)
(***************************************************************************)
RemoveAt(seq, i) == [k \in 1..(Len(seq) - 1) |-> IF k < i THEN seq[k] ELSE seq[k + 1]]

\* InventoryManager.can_use_exploit
can_use_exploit(equipped, key) ==
    (\E k \in DOMAIN equipped : equipped[k] = key) /\ key \in ExploitKeys

\* ExploitSystem._calculate_heat_cost: int(heat * 0.6) under efficiency
calculate_heat_cost(p, key) ==
    IF p.effects.exploit_efficiency_turns > 0
    THEN (EXPLOITS(key).heat * 6) \div 10
    ELSE EXPLOITS(key).heat

\* ExploitSystem._validate_target
validate_target(p, key, target) ==
    /\ is_valid(target, MAP_WIDTH, MAP_HEIGHT)
    /\ ~(distance_to(p.position, target) > EXPLOITS(key).range)

\* The _execute_* operators give [g, success].
\* ExploitSystem._execute_shadow_step
execute_shadow_step(g, target) ==
    IF is_shadow(shadows, target) /\ is_valid_position(walls, target)
    THEN IF get_enemy_at(g.enemies, target) = 0
         THEN [g |-> [g EXCEPT !.player.position = target], success |-> TRUE]
         ELSE [g |-> g, success |-> FALSE]
    ELSE [g |-> g, success |-> FALSE]

\* ExploitSystem._execute_data_mimic
execute_data_mimic(g) ==
    [g |-> [g EXCEPT !.player.effects.data_mimic_turns = 5], success |-> TRUE]

\* ExploitSystem._execute_noise_maker
execute_noise_maker(g, target) ==
    [g |-> [g EXCEPT !.enemies =
               [i \in DOMAIN g.enemies |->
                  LET e == g.enemies[i]
                      mv == ENEMY_TYPES(e.type).movement
                  IN IF mv \in {"seek", "random", "linear"} /\ distance_to(e.position, target) <= 10
                     THEN IF mv = "linear"
                          THEN [e EXCEPT !.state = "alert", !.alert_timer = 3]
                          ELSE [e EXCEPT !.last_seen_player = target,
                                         !.state = "alert", !.alert_timer = 2]
                     ELSE e]],
     success |-> TRUE]

\* The shared body of _execute_code_injection and _execute_buffer_overflow
\* once a target enemy (index i) is found.
attack_enemy(g, i, damage) ==
    IF g.enemies[i].cpu - damage <= 0
    THEN [g EXCEPT !.enemies = RemoveAt(@, i),
                   !.player.cpu = Min2(MAX_CPU, @ + 5)]
    ELSE [g EXCEPT !.enemies[i].cpu = @ - damage,
                   !.enemies[i].state = "hostile",
                   !.enemies[i].last_seen_player = g.player.position]

\* ExploitSystem._execute_code_injection
execute_code_injection(g, target) ==
    LET i == get_enemy_at(g.enemies, target)
    IN IF i # 0
       THEN [g |-> attack_enemy(g, i, IF g.enemies[i].type = "firewall" THEN 35 ELSE 30),
             success |-> TRUE]
       ELSE [g |-> g, success |-> FALSE]

\* ExploitSystem._execute_buffer_overflow
execute_buffer_overflow(g, target) ==
    LET i == get_enemy_at(g.enemies, target)
    IN IF distance_to(g.player.position, target) <= 1 /\ i # 0
       THEN [g |-> attack_enemy(g, i, 50), success |-> TRUE]
       ELSE [g |-> g, success |-> FALSE]

\* ExploitSystem._execute_system_crash (turns = 4) and _execute_emp_burst (turns = 6)
disable_enemies(g, target, exploit_range, turns) ==
    [g |-> [g EXCEPT !.enemies =
               [i \in DOMAIN g.enemies |->
                  IF distance_to(g.enemies[i].position, target) <= exploit_range
                  THEN [g.enemies[i] EXCEPT !.disabled_turns = turns,
                                            !.state = "unaware", !.alert_timer = 0]
                  ELSE g.enemies[i]]],
     success |-> TRUE]

\* ExploitSystem._execute_network_scan
execute_network_scan(g) ==
    [g |-> [g EXCEPT !.network_scan_turns = 15], success |-> TRUE]

\* ExploitSystem._execute_log_wiper
execute_log_wiper(g) ==
    [g |-> [g EXCEPT !.player.detection = Max2(0, @ - 30)], success |-> TRUE]

\* ExploitSystem._execute_specific_exploit
execute_specific_exploit(g, key, target) ==
    CASE key = "shadow_step"     -> execute_shadow_step(g, target)
      [] key = "data_mimic"      -> execute_data_mimic(g)
      [] key = "noise_maker"     -> execute_noise_maker(g, target)
      [] key = "code_injection"  -> execute_code_injection(g, target)
      [] key = "buffer_overflow" -> execute_buffer_overflow(g, target)
      [] key = "system_crash"    -> disable_enemies(g, target, EXPLOITS(key).range, 4)
      [] key = "network_scan"    -> execute_network_scan(g)
      [] key = "log_wiper"       -> execute_log_wiper(g)
      [] key = "emp_burst"       -> disable_enemies(g, target, EXPLOITS(key).range, 6)
      [] OTHER -> [g |-> g, success |-> FALSE]

\* ExploitSystem.execute_exploit up to (not including) its call of
\* process_turn: [g, success, valid]; valid is the result of _validate_target.
execute_exploit(g, key, target) ==
    IF key \notin ExploitKeys THEN [g |-> g, success |-> FALSE, valid |-> FALSE]
    ELSE IF ~validate_target(g.player, key, target)
    THEN [g |-> g, success |-> FALSE, valid |-> FALSE]
    ELSE LET heat_cost == calculate_heat_cost(g.player, key)
             g1 == [g EXCEPT !.player.heat = Min2(100, @ + heat_cost)]
             r == execute_specific_exploit(g1, key, target)
         IN [g |-> r.g, success |-> r.success, valid |-> TRUE]

(***************************************************************************)
(* DataPatch                                                               *)
(***************************************************************************)
\* DataPatch._apply_effect; restore is the value of random.randint(30, 40).
\* The speed_boost, enhanced_vision and exploit_efficiency branches assign
\* player.speed_boost_turns etc., attributes that no other code reads; they
\* leave player.temporary_effects as it is.
apply_effect(p, effect_key, restore) ==
    CASE effect_key = "restore_cpu" ->
           [p EXCEPT !.cpu = @ + Min2(restore, MAX_CPU - p.cpu)]
      [] effect_key = "reduce_heat" ->
           [p EXCEPT !.heat = Max2(0, @ - 40)]
      [] effect_key = "reduce_detection" ->
           [p EXCEPT !.detection = Max2(0, @ - 25)]
      [] OTHER -> p

(***************************************************************************)
(* Game.move_player                                                        *)
(***************************************************************************)
\* The cell Player.move tries to enter
move_target(p, d) ==
    <<Max2(0, Min2(MAP_WIDTH - 1, p.position[1] + d[1])),
      Max2(0, Min2(MAP_HEIGHT - 1, p.position[2] + d[2]))>>

\* The for loop of Game.move_player, `remaining` iterations left:
\* [g, outcome], outcome "gateway" (next_level follows), "dead" (return
\* without process_turn) or "turn" (process_turn follows); moved tells
\* whether some iteration changed the position.
RECURSIVE move_loop(_, _, _, _)
move_loop(g, d, remaining, moved) ==
    IF remaining = 0 THEN [g |-> g, outcome |-> "turn", moved |-> moved]
    ELSE LET np == move_target(g.player, d)
         IN IF is_valid_position(walls, np)
            THEN IF gateway # None /\ distance_to(np, gateway) = 0
                 THEN [g |-> [g EXCEPT !.player.position = np],
                       outcome |-> "gateway", moved |-> TRUE]
                 ELSE IF get_enemy_at(g.enemies, np) # 0
                 THEN [g |-> g, outcome |-> "turn", moved |-> moved]
                 ELSE IF g.player.heat >= 100
                 THEN LET p1 == [take_damage([g.player EXCEPT !.position = np],
                                             5 + (g.player.heat - 100))
                                    EXCEPT !.heat = 95]
                      IN IF p1.cpu <= 0
                         THEN [g |-> [g EXCEPT !.player = p1],
                               outcome |-> "dead", moved |-> TRUE]
                         ELSE move_loop([g EXCEPT !.player = p1], d, remaining - 1, TRUE)
                 ELSE move_loop([g EXCEPT !.player.position = np], d, remaining - 1, TRUE)
            ELSE [g |-> g, outcome |-> "turn", moved |-> moved]


(***************************************************************************)
(* Bounds of the exploration                                               *)
(***************************************************************************)
\* Commands issued after the initial state (last_cmd.n counts them).
MaxCommands == 3
\* How far the targeting cursor is moved away from the player.
MaxCursorDist == 1

(***************************************************************************)
(* The state as a record, and the commands of InputHandler.handle_keydown  *)
(***************************************************************************)
G == [player |-> player, enemies |-> enemies, turn |-> turn,
      data_patches |-> data_patches, items |-> items,
      network_scan_turns |-> network_scan_turns, admin_spawned |-> admin_spawned]

SetG(g) ==
    /\ player' = g.player
    /\ enemies' = g.enemies
    /\ turn' = g.turn
    /\ data_patches' = g.data_patches
    /\ items' = g.items
    /\ network_scan_turns' = g.network_scan_turns
    /\ admin_spawned' = g.admin_spawned

\* last_cmd records the last command and what became of it.
Cmd(name, result) ==
    /\ last_cmd' = [name |-> name, result |-> result, n |-> last_cmd.n + 1]
    /\ UNCHANGED loop

MoreCommands == last_cmd.n < MaxCommands

\* The gate of handle_keydown without the test of player.cpu
input_blocked_only_when_over(p, over) == over

\* InputHandler.handle_keydown lines 1570-1571: only ESC is handled when the
\* player is dead or the game is over.
input_blocked(p, over) == p.cpu <= 0 \/ over

\* The draws level generation is run with.
SeedA ==
    [rooms   |-> << <<4, 4, 4, 4>>, <<36, 36, 5, 5>>, <<20, 20, 6, 6>>, <<22, 24, 5, 5>> >>,
     shadows |-> << <<30, 37>>, <<31, 37>>, <<29, 36>>, <<36, 38>>, <<6, 6>>, <<7, 5>> >>,
     nodes   |-> << [pos |-> <<6, 6>>, cooling |-> TRUE],
                    [pos |-> <<28, 36>>, cooling |-> TRUE],
                    [pos |-> <<32, 36>>, cooling |-> FALSE] >>,
     patches |-> << [pos |-> <<31, 36>>, effect |-> "reduce_detection"],
                    [pos |-> <<12, 5>>, effect |-> "speed_boost"] >>,
     enemies |-> << [pos |-> <<30, 38>>, type |-> "scanner", legs |-> <<>>],
                    [pos |-> <<10, 10>>, type |-> "bot", legs |-> <<>>],
                    [pos |-> <<23, 30>>, type |-> "patrol",
                     legs |-> << << <<0, 3>> >>, << <<0, 3>>, <<0, -3>> >>, << <<2, 0>> >> >>],
                    [pos |-> <<33, 34>>, type |-> "firewall", legs |-> <<>>] >>]

SeedB ==
    [rooms   |-> << <<10, 30, 5, 5>>, <<30, 10, 6, 5>> >>,
     shadows |-> << <<20, 21>> >>,
     nodes   |-> << [pos |-> <<20, 25>>, cooling |-> FALSE] >>,
     patches |-> << [pos |-> <<6, 12>>, effect |-> "restore_cpu"] >>,
     enemies |-> << [pos |-> <<40, 40>>, type |-> "scanner", legs |-> <<>>],
                    [pos |-> <<20, 20>>, type |-> "bot", legs |-> <<>>] >>]

SeedC ==
    [rooms   |-> << <<5, 5, 6, 6>> >>,
     shadows |-> << <<6, 5>> >>,
     nodes   |-> <<>>,
     patches |-> <<>>,
     enemies |-> << [pos |-> <<20, 6>>, type |-> "hunter", legs |-> <<>>] >>]

\* One room is accepted: every other candidate overlaps it or the spawn area.
SeedD ==
    [rooms   |-> << <<36, 36, 5, 5>>, <<38, 30, 6, 6>>, <<3, 3, 10, 10>> >>,
     shadows |-> << <<30, 30>> >>,
     nodes   |-> << [pos |-> <<15, 15>>, cooling |-> TRUE] >>,
     patches |-> <<>>,
     enemies |-> << [pos |-> <<20, 30>>, type |-> "firewall", legs |-> <<>>] >>]

NextSeeds == {SeedB, SeedC, SeedD}

\* The state _generate_procedural_level leaves: the map m it generated, the
\* player reset, admin_spawned cleared.
SetLevel(g, m) ==
    /\ walls' = m.walls
    /\ shadows' = m.shadows
    /\ cooling_nodes' = m.cooling_nodes
    /\ cpu_recovery_nodes' = m.cpu_recovery_nodes
    /\ gateway' = m.gateway
    /\ SetG([g EXCEPT !.data_patches = m.data_patches,
                      !.enemies = m.enemies,
                      !.player = reset_player_state(g.player),
                      !.admin_spawned = FALSE])

\* Game.next_level after the player entered the gateway (g holds the moved player)
NextLevel(g) ==
    /\ level' = level + 1
    /\ IF level + 1 > MAX_LEVEL
       THEN /\ game_over' = TRUE
            /\ SetG(g)
            /\ UNCHANGED terrain
       ELSE /\ \E seed \in NextSeeds : SetLevel(g, generate_map(level + 1, seed, gateway))
            /\ UNCHANGED game_over

MoveDirs == {d \in {-1, 0, 1} \X {-1, 0, 1} : d # <<0, 0>>}

\* A key while the player is dead or the game is over (lines 1570-1571)
RejectedKey ==
    /\ MoreCommands
    /\ input_blocked(player, game_over)
    /\ \E name \in {"move", "wait", "use_exploit", "confirm", "use_item"} :
          Cmd(name, "rejected")
    /\ UNCHANGED <<terrain, data_patches, player, enemies, level, turn, game_over,
                   admin_spawned, uivars, network_scan_turns, equipped_exploits, items>>

\* A movement key in normal gameplay: Game.move_player
MovePlayer(d) ==
    /\ MoreCommands
    /\ ~input_blocked(player, game_over)
    /\ ~targeting_mode
    /\ LET moves == IF player.effects.speed_boost_turns > 0 THEN 2 ELSE 1
           r == move_loop(G, d, moves, FALSE)
       IN /\ Cmd("move", IF r.outcome = "gateway" THEN "gateway"
                         ELSE IF r.moved THEN "moved" ELSE "blocked")
          /\ CASE r.outcome = "gateway" -> NextLevel(r.g)
               [] r.outcome = "dead" ->
                    SetG(r.g) /\ UNCHANGED <<terrain, level, game_over>>
               [] OTHER ->
                    /\ \E g2 \in process_turn(r.g) : SetG(g2)
                    /\ UNCHANGED <<terrain, level, game_over>>
    /\ UNCHANGED <<uivars, equipped_exploits>>

\* A movement key in targeting mode: Game._move_cursor
MoveCursor(d) ==
    /\ MoreCommands
    /\ ~input_blocked(player, game_over)
    /\ targeting_mode
    /\ LET c == <<Max2(0, Min2(MAP_WIDTH - 1, cursor_position[1] + d[1])),
                  Max2(0, Min2(MAP_HEIGHT - 1, cursor_position[2] + d[2]))>>
       IN /\ distance_to(c, player.position) <= MaxCursorDist
          /\ cursor_position' = c
    /\ Cmd("cursor", "moved")
    /\ UNCHANGED <<terrain, data_patches, player, enemies, level, turn, game_over,
                   admin_spawned, targeting_mode, targeting_exploit,
                   network_scan_turns, equipped_exploits, items>>

\* The wait key: Game.process_turn
Wait ==
    /\ MoreCommands
    /\ ~input_blocked(player, game_over)
    /\ ~targeting_mode
    /\ \E g2 \in process_turn(G) : SetG(g2)
    /\ Cmd("wait", "turn")
    /\ UNCHANGED <<terrain, level, game_over, uivars, equipped_exploits>>

\* execute_exploit with its call of process_turn, as a step
DoExecute(key, target) ==
    LET r == execute_exploit(G, key, target)
    IN IF r.success
       THEN /\ \E g2 \in process_turn(r.g) : SetG(g2)
            /\ targeting_mode' = FALSE
            /\ targeting_exploit' = NoExploit
            /\ UNCHANGED cursor_position
            /\ Cmd(key, "executed")
       ELSE /\ SetG(r.g)
            /\ UNCHANGED uivars
            /\ Cmd(key, IF r.valid THEN "failed" ELSE "invalid_target")

\* An exploit key: ExploitSystem.use_exploit
UseExploit(key) ==
    /\ MoreCommands
    /\ ~input_blocked(player, game_over)
    /\ ~targeting_mode
    /\ IF ~can_use_exploit(equipped_exploits, key)
       THEN /\ Cmd(key, "not_equipped")
            /\ UNCHANGED <<data_patches, player, enemies, turn, admin_spawned,
                           uivars, network_scan_turns, items>>
       ELSE IF player.heat + calculate_heat_cost(player, key) > 100
       THEN /\ Cmd(key, "too_hot")
            /\ UNCHANGED <<data_patches, player, enemies, turn, admin_spawned,
                           uivars, network_scan_turns, items>>
       ELSE IF EXPLOITS(key).targeting # "none" /\ EXPLOITS(key).range > 0
       THEN /\ targeting_mode' = TRUE
            /\ targeting_exploit' = key
            /\ cursor_position' = player.position
            /\ Cmd(key, "targeting")
            /\ UNCHANGED <<data_patches, player, enemies, turn, admin_spawned,
                           network_scan_turns, items>>
       ELSE DoExecute(key, player.position)
    /\ UNCHANGED <<terrain, level, game_over, equipped_exploits>>

\* Enter in targeting mode: execute_exploit(targeting_exploit, cursor_position)
ConfirmTarget ==
    /\ MoreCommands
    /\ ~input_blocked(player, game_over)
    /\ targeting_mode
    /\ DoExecute(targeting_exploit, cursor_position)
    /\ UNCHANGED <<terrain, level, game_over, equipped_exploits>>

\* ESC in targeting mode: InputHandler._handle_escape
CancelTargeting ==
    /\ MoreCommands
    /\ targeting_mode
    /\ targeting_mode' = FALSE
    /\ targeting_exploit' = NoExploit
    /\ Cmd("escape", "cancelled")
    /\ UNCHANGED <<terrain, data_patches, player, enemies, level, turn, game_over,
                   admin_spawned, cursor_position, network_scan_turns,
                   equipped_exploits, items>>

\* Enter on inventory item i: InputHandler._use_selected_inventory_item,
\* DataPatch.use
UseItem(i) ==
    /\ MoreCommands
    /\ ~input_blocked(player, game_over)
    /\ ~targeting_mode
    /\ i \in DOMAIN items
    /\ items[i].item_type = "data_patch"
    /\ \E restore \in {30, 40} :
          player' = apply_effect(player, items[i].effect,
                                 IF items[i].effect = "restore_cpu" THEN restore ELSE 30)
    /\ Cmd("use_item", items[i].effect)
    /\ UNCHANGED <<terrain, data_patches, enemies, level, turn, game_over,
                   admin_spawned, uivars, network_scan_turns, equipped_exploits, items>>


(***************************************************************************)
(* Initial states                                                          *)
(***************************************************************************)
\* The state Game.__init__ leaves on level lv when level generation gave the map m
new_game(lv, m) ==
    [walls |-> m.walls, shadows |-> m.shadows, cooling_nodes |-> m.cooling_nodes,
     cpu_recovery_nodes |-> m.cpu_recovery_nodes, data_patches |-> m.data_patches,
     gateway |-> m.gateway,
     player |-> reset_player_state([position |-> SPAWN, cpu |-> MAX_CPU, heat |-> 0,
                                    detection |-> 0, effects |-> NoEffects]),
     enemies |-> m.enemies, level |-> lv, turn |-> 0, game_over |-> FALSE,
     admin_spawned |-> FALSE, targeting_mode |-> FALSE,
     targeting_exploit |-> NoExploit, cursor_position |-> <<0, 0>>,
     network_scan_turns |-> 0,
     equipped_exploits |-> <<"shadow_step", "network_scan", "code_injection">>,
     items |-> <<>>]

\* Game.__init__ with level generation run on the draws of seed
Constructed(lv, seed) == new_game(lv, generate_map(lv, seed, None))

LevelA == Constructed(1, SeedA)

\* States of a run in progress.  After turn t >= 2 the move_cooldown of a
\* sentinel that was never disabled is 1 for a patrol, and for the other kinds
\* 1 when t is even, 2 when t is odd; the patrol of level A walks a cycle of
\* 10 turns along its route.
\* The scanner has watched the player for three turns (Alert, timer 1); the
\* player is hot, carries a patch picked up at (31, 36) and has five
\* exploits equipped: log_wiper and data_mimic were added to the three of
\* InventoryManager.__init__ with InventoryManager.equip_exploit.
NearScanner ==
    [LevelA EXCEPT
        !.player.position = <<30, 36>>, !.player.heat = 80, !.player.detection = 20,
        !.turn = 300,
        !.enemies[1].state = "alert", !.enemies[1].alert_timer = 1,
        !.enemies[1].move_cooldown = 1,
        !.enemies[2].position = <<23, 32>>, !.enemies[2].move_cooldown = 1,
        !.enemies[3].move_cooldown = 1,
        !.items = << [item_type |-> "data_patch", effect |-> "reduce_detection"] >>,
        !.data_patches = [q \in (DOMAIN @) \ {<<31, 36>>} |-> @[q]],
        !.equipped_exploits = <<"shadow_step", "network_scan", "code_injection",
                                "log_wiper", "data_mimic">>]

\* The scanner is Hostile and watches the weakened player; the boss of this
\* level was spawned and eliminated earlier.
Hunted ==
    [LevelA EXCEPT
        !.player.position = <<30, 36>>, !.player.cpu = 10, !.player.detection = 99,
        !.turn = 1334, !.admin_spawned = TRUE,
        !.enemies[1].state = "hostile", !.enemies[1].last_seen_player = <<30, 36>>,
        !.enemies[1].move_cooldown = 1,
        !.enemies[2].position = <<23, 34>>, !.enemies[2].patrol_index = 2,
        !.enemies[2].move_cooldown = 1, !.enemies[3].move_cooldown = 1]

\* Detection has just reached the level's threshold through the passive increase.
SpawnDue ==
    [LevelA EXCEPT
        !.player.position = <<6, 5>>, !.player.detection = 90, !.turn = 1335,
        !.enemies[1].move_cooldown = 2,
        !.enemies[2].position = <<23, 35>>, !.enemies[2].patrol_index = 2,
        !.enemies[2].move_cooldown = 1, !.enemies[3].move_cooldown = 2]

\* The player stands next to the gateway.
AtGateway ==
    [LevelA EXCEPT
        !.player.position = <<37, 38>>, !.player.detection = 40, !.turn = 600,
        !.enemies[1].move_cooldown = 1,
        !.enemies[2].position = <<23, 32>>, !.enemies[2].move_cooldown = 1,
        !.enemies[3].move_cooldown = 1]

\* The player stands east of the patrol's route, out of its sight; the patrol
\* is on its way back north.
NearPatrol ==
    [LevelA EXCEPT
        !.player.position = <<26, 31>>, !.player.detection = 20, !.turn = 307,
        !.enemies[1].move_cooldown = 2,
        !.enemies[2].position = <<23, 35>>, !.enemies[2].move_cooldown = 1,
        !.enemies[3].move_cooldown = 2]

\* NearScanner after the code_injection key, the targeting cursor moved onto
\* the scanner, which is in range.
AimingAtScanner ==
    [NearScanner EXCEPT
        !.targeting_mode = TRUE, !.targeting_exploit = "code_injection",
        !.cursor_position = <<30, 38>>]

\* The same with the cursor on the firewall.
AimingAtFirewall ==
    [NearScanner EXCEPT
        !.targeting_mode = TRUE, !.targeting_exploit = "code_injection",
        !.cursor_position = <<33, 34>>]

\* The last level, the player next to its gateway.
LastLevel ==
    [Constructed(3, SeedB) EXCEPT
        !.player.position = <<13, 32>>, !.player.detection = 30, !.turn = 900,
        !.enemies[1].move_cooldown = 1,
        !.enemies[2].position = <<21, 21>>, !.enemies[2].move_cooldown = 1]

\* Level 2 without rooms: the hunter, HOSTILE since its alert_timer ran out,
\* has closed in on the player along row 6.
Stalked ==
    [Constructed(2, SeedC) EXCEPT
        !.player.position = <<16, 6>>, !.player.cpu = 60, !.player.detection = 30,
        !.turn = 400,
        !.enemies[1].position = <<18, 6>>, !.enemies[1].state = "hostile",
        !.enemies[1].last_seen_player = <<16, 6>>, !.enemies[1].move_cooldown = 1]

\* Stalked after an emp_burst (equipped with InventoryManager.equip_exploit)
\* five turns ago: the hunter has one disabled turn left and its move_cooldown
\* stands where the burst caught it.
Jammed ==
    [Stalked EXCEPT
        !.player.heat = 30,
        !.enemies[1].disabled_turns = 1, !.enemies[1].move_cooldown = 2,
        !.equipped_exploits = <<"shadow_step", "network_scan", "code_injection",
                                "emp_burst">>]

InitStates == {LevelA, NearScanner, Hunted, SpawnDue, AtGateway, LastLevel,
               NearPatrol, AimingAtScanner, AimingAtFirewall, Stalked, Jammed}

InitFrom(st) ==
    /\ walls = st.walls
    /\ shadows = st.shadows
    /\ cooling_nodes = st.cooling_nodes
    /\ cpu_recovery_nodes = st.cpu_recovery_nodes
    /\ data_patches = st.data_patches
    /\ gateway = st.gateway
    /\ player = st.player
    /\ enemies = st.enemies
    /\ level = st.level
    /\ turn = st.turn
    /\ game_over = st.game_over
    /\ admin_spawned = st.admin_spawned
    /\ targeting_mode = st.targeting_mode
    /\ targeting_exploit = st.targeting_exploit
    /\ cursor_position = st.cursor_position
    /\ network_scan_turns = st.network_scan_turns
    /\ equipped_exploits = st.equipped_exploits
    /\ items = st.items
    /\ last_cmd = [name |-> "init", result |-> "init", n |-> 0]
    /\ loop = NoLoop

Init == \E st \in InitStates : InitFrom(st)

ExploitInputs == {"shadow_step", "network_scan", "code_injection", "log_wiper",
                  "data_mimic", "emp_burst"}

Next ==
    \/ \E d \in MoveDirs : MovePlayer(d)
    \/ \E d \in MoveDirs : MoveCursor(d)
    \/ Wait
    \/ \E key \in ExploitInputs : UseExploit(key)
    \/ ConfirmTarget
    \/ CancelTargeting
    \/ \E i \in 1..2 : UseItem(i)
    \/ RejectedKey

Spec == Init /\ [][Next]_vars


(***************************************************************************)
(* Properties                                                              *)
(***************************************************************************)
\* The indices of the admin avatars in a list of enemies.
Admins(es) == {i \in DOMAIN es : es[i].type = "admin"}

\* A step in which _spawn_admin_avatar appended the admin avatar.
AdminAppears == Cardinality(Admins(enemies')) > Cardinality(Admins(enemies))

\* A step that ran process_turn on the current level.
SchedulerRan == turn' = turn + 1

\* C1: after every operation that changes it (the Hostile spike and trickle of
\* _handle_enemy_sees_player, the passive increase, log_wiper, a
\* reduce_detection patch, level generation) player.detection is within 0..100.
DetectionInRange == player.detection \in 0..100

\* A watching Hostile sentinel has added to a detection already at 99, twice.
DetectionHeldAt100 ==
    /\ last_cmd.n >= 2
    /\ last_cmd.result = "turn"
    /\ player.detection = 100
    /\ \E i \in DOMAIN enemies :
          enemies[i].state = "hostile" /\ can_see_player(enemies[i], player, walls, shadows)

\* C2: on each level the admin avatar is spawned at most once, only by a
\* process_turn in which detection is at or above the level's threshold, and
\* once admin_spawned is set (the avatar alive or eliminated) no avatar is
\* spawned until next_level has generated the next level.
AdminSpawnedOncePerLevel ==
    [][ /\ Cardinality(Admins(enemies')) <= 1
        /\ AdminAppears =>
              /\ ~admin_spawned
              /\ admin_spawned'
              /\ SchedulerRan
              /\ level' = level
              /\ player'.detection >= ADMIN_SPAWN_THRESHOLDS(level)
        /\ (admin_spawned /\ ~admin_spawned') => level' = level + 1 ]_vars

\* process_turn has spawned the admin avatar.
AdminWasSpawned ==
    /\ last_cmd.n >= 1
    /\ admin_spawned
    /\ Admins(enemies) # {}
    /\ player.detection >= ADMIN_SPAWN_THRESHOLDS(level)

\* C3: whenever the admin avatar is spawned, also at the fallback position
\* (40, 40), its cell is not a wall and holds neither another enemy nor the
\* player.
AdminSpawnCellFree ==
    [][ AdminAppears =>
          LET n == Len(enemies')
              pos == enemies'[n].position
          IN /\ is_valid_position(walls', pos)
             /\ pos # player'.position
             /\ \A j \in 1..(n - 1) : enemies'[j].position # pos ]_vars

\* C5: an enemy within Chebyshev distance 1 of a player who is not invisible
\* sees the player, on whatever tile the two stand and whatever the enemy's
\* vision range.
AdjacentEnemySeesPlayer ==
    \A i \in DOMAIN enemies :
        ( /\ distance_to(enemies[i].position, player.position) <= 1
          /\ ~is_invisible(player)
          /\ enemies[i].disabled_turns = 0 )
        => can_see_player(enemies[i], player, walls, shadows)

\* The cells around the west wall of the room at (36, 36) and its doorway.
LosProbeCells == {c \in (34..38) \X (36..40) : ~is_wall(walls, c)}

\* Two walls that touch only at a corner, the two cells beside them open.
DiagonalGap(w) ==
    \E c \in w : \E dy \in {-1, 1} :
        /\ <<c[1] + 1, c[2] + dy>> \in w
        /\ <<c[1] + 1, c[2]>> \notin w
        /\ <<c[1], c[2] + dy>> \notin w

\* C6: on a map without diagonal gaps between walls,
\* has_line_of_sight(a, b) = has_line_of_sight(b, a) for cells a, b of the map.
LineOfSightSymmetric ==
    ~DiagonalGap(walls) =>
        \A a \in LosProbeCells : \A b \in LosProbeCells :
            has_line_of_sight(walls, a, b) = has_line_of_sight(walls, b, a)

\* Exploits that set an enemy's state themselves, or remove an enemy.
StateSettingExploits == {"noise_maker", "code_injection", "buffer_overflow"}

\* C7: while data_mimic_turns > 0 no enemy sees the player, at any distance
\* and on any tile; so a process_turn whose awareness check runs with
\* data_mimic_turns > 0 takes no enemy out of "unaware", makes no enemy
\* "hostile" and adds no detection besides the passive increase.
InvisiblePlayerUnseen ==
    [][ ( /\ SchedulerRan
          /\ player'.effects.data_mimic_turns > 0
          /\ last_cmd'.name \notin StateSettingExploits )
        => /\ \A i \in DOMAIN enemies' :
                 ~can_see_player(enemies'[i], player', walls', shadows')
           /\ \A i \in DOMAIN enemies :
                 /\ enemies[i].state = "unaware" => enemies'[i].state = "unaware"
                 /\ enemies'[i].state = "hostile" => enemies[i].state = "hostile"
           /\ player'.detection
                 <= player.detection + (IF turn' % 15 = 0 THEN 1 ELSE 0) ]_vars

\* process_turn has run with the player invisible, in view of an enemy that is
\* in range, has a line of sight, and is not disabled.
InvisibleInPlainView ==
    /\ last_cmd.result \in {"executed", "turn", "moved"}
    /\ player.effects.data_mimic_turns > 0
    /\ \E i \in DOMAIN enemies :
          /\ enemies[i].disabled_turns = 0
          /\ distance_to(enemies[i].position, player.position)
                <= ENEMY_TYPES(enemies[i].type).vision
          /\ ~is_shadow(shadows, player.position)
          /\ has_line_of_sight(walls, enemies[i].position, player.position)

\* C8: a move whose target cell is a wall, off the map or holds an enemy
\* changes neither the player (position, detection, heat, effect counters)
\* nor the turn counter nor any enemy.
BlockedMoveChangesNothing ==
    [][ (last_cmd'.name = "move" /\ last_cmd'.result = "blocked")
        => UNCHANGED <<player, turn, enemies>> ]_vars

\* How a use of an exploit fails: not equipped, not enough heat headroom,
\* target rejected by _validate_target, or rejected by the exploit itself.
ExploitFailures == {"not_equipped", "too_hot", "invalid_target", "failed"}

\* C9: a use of an exploit that fails leaves player.heat and the rest of the
\* game state as they were and does not run process_turn.
FailedExploitChangesNothing ==
    [][ (last_cmd'.name \in ExploitKeys /\ last_cmd'.result \in ExploitFailures)
        => UNCHANGED <<player, turn, enemies, data_patches, admin_spawned,
                       network_scan_turns, items, level, terrain>> ]_vars

\* C10: once player.cpu <= 0 or game_over holds, no command changes the turn
\* counter, the player (position, cpu, heat, detection), the enemies or any
\* other part of the game state.
NoChangeAfterTheEnd ==
    [][ (player.cpu <= 0 \/ game_over)
        => UNCHANGED <<turn, player, enemies, level, game_over, data_patches,
                       admin_spawned, network_scan_turns, items, terrain>> ]_vars

\* A command was rejected after the player's cpu had reached 0.
RejectedWhenDead ==
    /\ last_cmd.result = "rejected"
    /\ player.cpu <= 0
    /\ ~game_over

\* The cells Player.move can enter from c: the 8 neighbours that are on the
\* map and not walls.
WalkableNeighbours(w, c) ==
    {n \in {<<c[1] + d[1], c[2] + d[2]>> : d \in MoveDirs} : is_valid_position(w, n)}

\* The cells reachable from the cells of seen, frontier being the newest of them.
RECURSIVE Flood(_, _, _)
Flood(w, frontier, seen) ==
    IF frontier = {} THEN seen
    ELSE LET reached == (UNION {WalkableNeighbours(w, c) : c \in frontier}) \ seen
         IN Flood(w, reached, seen \cup reached)

\* C4: on every generated level, whatever rooms _generate_rooms accepted, the
\* gateway can be reached from the spawn cell (5, 5) over cells that are not
\* walls.
GatewayReachableFromSpawn ==
    gateway # None => gateway \in Flood(walls, {SPAWN}, {SPAWN})

\* Commands that run process_turn and change no enemy before it.
QuietCommands == {"move", "wait", "shadow_step", "network_scan", "log_wiper", "data_mimic"}

\* A step whose enemies changed only through process_turn.
AwarenessRan == SchedulerRan /\ last_cmd'.name \in QuietCommands

\* Enemy i saw the player in the awareness check of the step: the check runs
\* after the player's move and the decay of the effects, before the enemies move.
Observed(i) == can_see_player(enemies[i], player', walls, shadows)

\* C11: an UNAWARE enemy that sees the player becomes ALERT with alert_timer
\* 3; the awareness check makes an enemy HOSTILE only from ALERT, on a turn
\* in which it sees the player and its alert_timer reaches 0, and records the
\* player's position in last_seen_player; never UNAWARE to HOSTILE in one turn.
AwarenessEscalatesStepwise ==
    [][ AwarenessRan =>
          \A i \in DOMAIN enemies :
              /\ (enemies[i].state = "unaware" /\ Observed(i))
                    => (enemies'[i].state = "alert" /\ enemies'[i].alert_timer = 3)
              /\ enemies[i].state = "unaware" => enemies'[i].state # "hostile"
              /\ (enemies[i].state # "hostile" /\ enemies'[i].state = "hostile")
                    => /\ enemies[i].state = "alert"
                       /\ Observed(i)
                       /\ enemies'[i].alert_timer = enemies[i].alert_timer - 1
                       /\ enemies'[i].alert_timer <= 0
                       /\ enemies'[i].last_seen_player = player'.position ]_vars

\* The scanner, ALERT with alert_timer 1 at turn 300, has turned HOSTILE
\* watching the waiting player.
AlertTurnedHostile ==
    /\ turn = 301
    /\ last_cmd.name = "wait"
    /\ enemies[1].type = "scanner"
    /\ enemies[1].state = "hostile"
    /\ enemies[1].alert_timer = 0
    /\ enemies[1].last_seen_player = player.position

\* C12: an ALERT enemy that does not see the player in an awareness check is
\* UNAWARE after it.
UnseeingAlertCalmsAtOnce ==
    [][ AwarenessRan =>
          \A i \in DOMAIN enemies :
              (enemies[i].state = "alert" /\ ~Observed(i))
                  => enemies'[i].state = "unaware" ]_vars

\* C13: the awareness check takes an enemy out of HOSTILE only on a turn in
\* which it does not see the player: an ordinary enemy becomes UNAWARE with
\* last_seen_player cleared, the admin becomes ALERT with alert_timer 5 and
\* keeps last_seen_player; a HOSTILE enemy that sees the player stays HOSTILE.
HostileEndsOnlyUnobserved ==
    [][ AwarenessRan =>
          \A i \in DOMAIN enemies :
              enemies[i].state = "hostile" =>
                  /\ Observed(i) => enemies'[i].state = "hostile"
                  /\ enemies'[i].state # "hostile" =>
                        /\ ~Observed(i)
                        /\ IF enemies[i].type = "admin"
                           THEN /\ enemies'[i].state = "alert"
                                /\ enemies'[i].alert_timer = 5
                                /\ enemies'[i].last_seen_player = enemies[i].last_seen_player
                           ELSE /\ enemies'[i].state = "unaware"
                                /\ enemies'[i].last_seen_player = None ]_vars

\* The admin has just dropped from HOSTILE to ALERT, still holding the
\* position where it last saw the player.
AdminStoodDown ==
    \E i \in DOMAIN enemies :
        /\ enemies[i].type = "admin"
        /\ enemies[i].state = "alert"
        /\ enemies[i].alert_timer = 5
        /\ enemies[i].last_seen_player # None

\* The detection spikes due for the enemies that are HOSTILE in `after` and
\* were not in `before` (15 for the admin, 10 for the others).
RECURSIVE HostileSpikes(_, _, _)
HostileSpikes(before, after, i) ==
    IF i > Len(before) THEN 0
    ELSE (IF before[i].state # "hostile" /\ after[i].state = "hostile"
          THEN (IF before[i].type = "admin" THEN 15 ELSE 10)
          ELSE 0)
         + HostileSpikes(before, after, i + 1)

\* C14: every enemy that turns HOSTILE, by the expiry of its alert_timer or
\* by surviving a damaging exploit, raises detection by its spike (10, admin
\* 15), up to the ceiling of 100.
TurningHostileRaisesDetection ==
    [][ (/\ level' = level
         /\ Len(enemies') >= Len(enemies)
         /\ last_cmd'.name # "log_wiper"
         /\ HostileSpikes(enemies, enemies', 1) > 0)
          => player'.detection >=
                 Min2(100, player.detection + HostileSpikes(enemies, enemies', 1)) ]_vars

\* C19: removing an enemy with code_injection or buffer_overflow leaves
\* detection strictly higher than before, unless it was already 100.
KillRaisesDetection ==
    [][ (/\ last_cmd'.name \in {"code_injection", "buffer_overflow"}
         /\ last_cmd'.result = "executed"
         /\ Len(enemies') < Len(enemies))
          => (player'.detection > player.detection \/ player.detection = 100) ]_vars

\* C18: the detection value at which the admin spawns is one fixed value: the
\* threshold in force on the current level is that of level 1.
SpawnThresholdSameOnEveryLevel ==
    ADMIN_SPAWN_THRESHOLDS(level) = ADMIN_SPAWN_THRESHOLDS(1)

\* The detection added by the passive increase at the end of the turn that
\* ended in the primed state.
PassiveAdded == IF turn' % 15 = 0 THEN 1 ELSE 0

\* C15: process_turn runs in this order: turn counter, decay of the effects,
\* heat reduction (by the efficiency effect as it is after the decay), scan
\* timer, tile effects, enemies (awareness check on the positions before
\* they move, then movement, then contact damage on the positions after),
\* admin spawn check, passive detection increase; the passive increase can
\* make the spawn due only for a later turn.
ProcessTurnOrder ==
    [][ (last_cmd'.name = "wait" /\ last_cmd'.result = "turn") =>
          LET cooled == Max2(0, player.heat -
                               (IF player'.effects.exploit_efficiency_turns > 0 THEN 3 ELSE 2))
              restored == IF player.position \in cpu_recovery_nodes
                          THEN player.cpu + Min2(20, MAX_CPU - player.cpu)
                          ELSE player.cpu
              old == SubSeq(enemies', 1, Len(enemies))
          IN /\ turn' = turn + 1
             /\ player'.effects = update_effects(player.effects)
             /\ player'.heat = IF player.position \in cooling_nodes
                               THEN Max2(0, cooled - 20) ELSE cooled
             /\ network_scan_turns' = update_network_scan(network_scan_turns)
             /\ \A i \in DOMAIN enemies :
                   enemies[i].state = "unaware"
                       => (enemies'[i].state = "alert" <=> Observed(i))
             /\ player'.cpu =
                   process_enemy_attacks(old, [player' EXCEPT !.cpu = restored], 1).cpu
             /\ AdminAppears =>
                   player'.detection - PassiveAdded >= ADMIN_SPAWN_THRESHOLDS(level)
             /\ (/\ player'.detection >= ADMIN_SPAWN_THRESHOLDS(level)
                 /\ ~admin_spawned'
                 /\ Admins(enemies') = {})
                   => (turn' % 15 = 0 /\ player'.detection = ADMIN_SPAWN_THRESHOLDS(level)) ]_vars

\* After a wait an enemy stands where it sees the player and is still
\* UNAWARE: it moved into view after the awareness check of the turn.
MovedIntoViewUnaware ==
    /\ last_cmd.name = "wait"
    /\ last_cmd.result = "turn"
    /\ \E i \in DOMAIN enemies :
          /\ enemies[i].state = "unaware"
          /\ can_see_player(enemies[i], player, walls, shadows)

(***************************************************************************)
(* The player idles far from every enemy: nothing but the wait key, on     *)
(* level A, from detection 89 with the admin not yet spawned.              *)
(***************************************************************************)
\* How many turns the player idles.
MaxIdleTurns == 17

\* Cells around the spawn point, more than 15 cells from every enemy.
IdleCells == {<<5, 5>>, <<6, 5>>, <<5, 6>>, <<7, 6>>, <<6, 7>>, <<8, 5>>}

\* Turn 1335 has just added the passive point; at turn 307 the next passive
\* point is eight turns away.
IdleStates ==
    {[st EXCEPT !.player.position = c, !.player.detection = 89] :
        st \in {SpawnDue, NearPatrol}, c \in IdleCells}

InitIdle == \E st \in IdleStates : InitFrom(st)

\* The wait key, pressed up to MaxIdleTurns times.
IdleTurn ==
    /\ last_cmd.n < MaxIdleTurns
    /\ ~input_blocked(player, game_over)
    /\ ~targeting_mode
    /\ \E g2 \in process_turn(G) : SetG(g2)
    /\ Cmd("wait", "turn")
    /\ UNCHANGED <<terrain, level, game_over, uivars, equipped_exploits>>

NextIdle == IdleTurn

SpecIdle == InitIdle /\ [][NextIdle]_vars

\* The number of the idle turn on which the passive increase falls.
PassiveTurn == 15 - ((turn - last_cmd.n) % 15)

\* C16: from detection 89 on level 1 (threshold 90), no admin and no enemy
\* seeing the player, detection stays 89 until the passive increase makes it
\* 90, which spawns nothing in its own turn; the next turn spawns exactly one
\* admin, and after 15 turns detection is 90.
PassivePointThenSpawn ==
    /\ last_cmd.n < PassiveTurn =>
          (player.detection = 89 /\ Admins(enemies) = {} /\ ~admin_spawned)
    /\ last_cmd.n = PassiveTurn =>
          (player.detection = 90 /\ Admins(enemies) = {} /\ ~admin_spawned)
    /\ last_cmd.n > PassiveTurn =>
          (Cardinality(Admins(enemies)) = 1 /\ admin_spawned)
    /\ last_cmd.n \in PassiveTurn..15 => player.detection = 90

\* The sixteenth idle turn after turn 1335 has spawned the admin.
AdminSpawnedAfterPassivePoint ==
    /\ turn = 1351
    /\ last_cmd.n = 16
    /\ Cardinality(Admins(enemies)) = 1
    /\ player.detection = 90

EnemyStepsAreLegal ==
    [][ SchedulerRan =>
          /\ last_cmd'.name \in QuietCommands =>
                \A i \in DOMAIN enemies :
                    enemies'[i].position # enemies[i].position =>
                        /\ is_valid(enemies'[i].position, MAP_WIDTH, MAP_HEIGHT)
                        /\ ~is_wall(walls, enemies'[i].position)
                        /\ enemies'[i].position # player'.position
                        /\ distance_to(enemies'[i].position, enemies[i].position) = 1
          /\ \A j \in DOMAIN enemies' :
                enemies'[j].position = player'.position =>
                    \/ (AdminAppears /\ j = Len(enemies'))
                    \/ \E i \in DOMAIN enemies :
                          /\ enemies[i].type = enemies'[j].type
                          /\ enemies[i].position = enemies'[j].position ]_vars

\* The player has walked into the path of the patrol heading north from
\* (23, 33); the patrol stepped elsewhere instead of onto the player's cell.
PatrolAvoidedPlayerCell ==
    /\ turn = 310
    /\ player.position = <<23, 32>>
    /\ \E i \in DOMAIN enemies :
          /\ enemies[i].type = "patrol"
          /\ enemies[i].position # <<23, 33>>
          /\ distance_to(enemies[i].position, <<23, 33>>) = 1

\* Enemies with the LINEAR movement (the patrol)
IsPatrol(e) == ENEMY_TYPES(e.type).movement = "linear"

\* C21: an enemy that is not disabled gets to move on every turn when it is a
\* patrol and on every other turn otherwise (move_cooldown 2 after a turn
\* with a move opportunity, no opportunity on the turn after); a turn spent
\* disabled uses up one disabled turn and leaves move_cooldown as it was.
MoveOpportunityEveryOtherTurn ==
    [][ AwarenessRan =>
          \A i \in DOMAIN enemies :
              LET e == enemies[i]
                  f == enemies'[i]
              IN /\ e.move_cooldown \in 0..2
                 /\ IsPatrol(e) => e.move_cooldown \in 0..1
                 /\ IF e.disabled_turns > 0
                    THEN /\ f.disabled_turns = e.disabled_turns - 1
                         /\ f.move_cooldown = e.move_cooldown
                         /\ f.position = e.position
                    ELSE IF IsPatrol(e)
                    THEN f.move_cooldown = 1
                    ELSE IF e.move_cooldown = 2
                    THEN f.move_cooldown = 1 /\ f.position = e.position
                    ELSE f.move_cooldown = 2 ]_vars

\* The hunter, released from the emp_burst with move_cooldown 2, waited one
\* turn and has moved on the next.
HunterMovedAfterWaitingOut ==
    /\ level = 2
    /\ turn = 403
    /\ enemies[1].type = "hunter"
    /\ enemies[1].disabled_turns = 0
    /\ enemies[1].move_cooldown = 2
    /\ enemies[1].position # <<18, 6>>
    /\ equipped_exploits[Len(equipped_exploits)] = "emp_burst"

\* C22: in process_turn a STATIC enemy keeps its position, a SEEK enemy
\* changes it only when it is HOSTILE with last_seen_player set at the time it
\* moves, a TRACK enemy only when it is HOSTILE at that time.
PositionChangesAsMovementAllows ==
    [][ AwarenessRan =>
          \A i \in DOMAIN enemies :
              LET mv == ENEMY_TYPES(enemies[i].type).movement
              IN enemies'[i].position # enemies[i].position =>
                    /\ mv # "static"
                    /\ mv = "seek" => (/\ enemies'[i].state = "hostile"
                                       /\ enemies'[i].last_seen_player # None)
                    /\ mv = "track" => enemies'[i].state = "hostile" ]_vars

\* The admin, HOSTILE, has left the cell it was spawned on.
AdminLeftSpawnCell ==
    \E i \in DOMAIN enemies :
        /\ enemies[i].type = "admin"
        /\ enemies[i].state = "hostile"
        /\ enemies[i].move_cooldown = 2
        /\ enemies[i].position \notin {<<30, 5>>, <<5, 30>>, <<30, 30>>, <<40, 40>>}

\* A patrol at pos with the route [(2,2),(2,5)] and patrol_index 0.
TwoPointPatrol(pos) ==
    [NewEnemy(pos, "patrol") EXCEPT !.patrol_points = << <<2, 2>>, <<2, 5>> >>]

\* C23: a patrol that is not HOSTILE and is within distance 1 of its current
\* waypoint when it moves advances patrol_index by one modulo the length of
\* the route, otherwise keeps it, and takes the step of _move_toward for the
\* waypoint of the resulting index; patrol_index is always an index of the
\* route; route [(2,2),(2,5)], index 0, next to (2,2) gives index 1.
PatrolIndexAdvancesOnArrival ==
    [][ /\ \A i \in DOMAIN enemies :
              enemies[i].patrol_points # <<>> =>
                  enemies[i].patrol_index \in 0..(Len(enemies[i].patrol_points) - 1)
        /\ is_valid_position(walls, <<2, 3>>) /\ is_valid_position(walls, <<2, 4>>) =>
              LET f == move_patrol(TwoPointPatrol(<<2, 3>>), walls, player)
              IN /\ f.patrol_index = 1
                 /\ player.position # <<2, 4>> => f.position = <<2, 4>>
        /\ AwarenessRan =>
              \A i \in DOMAIN enemies :
                  LET e == enemies[i]
                      f == enemies'[i]
                      n == Len(e.patrol_points)
                      near == distance_to(e.position, e.patrol_points[e.patrol_index + 1]) <= 1
                      idx == IF near THEN (e.patrol_index + 1) % n ELSE e.patrol_index
                  IN (/\ IsPatrol(e)
                      /\ e.patrol_points # <<>>
                      /\ e.disabled_turns = 0
                      /\ f.state # "hostile")
                        => /\ f.patrol_index = idx
                           /\ f.patrol_index \in 0..(n - 1)
                           /\ f.position =
                                 move_toward(e, e.patrol_points[idx + 1], walls, player').position
                           /\ e.position # e.patrol_points[idx + 1]
                                 => distance_to(f.position, e.position) = 1 ]_vars

\* The patrol of level A has gone round its four waypoints: from (24, 36),
\* patrol_index 3, it is back at index 0 and on its way north.
PatrolRouteWrapped ==
    /\ turn = 1337
    /\ \E i \in DOMAIN enemies :
          /\ enemies[i].type = "patrol"
          /\ enemies[i].patrol_index = 0
          /\ enemies[i].position = <<23, 35>>

\* C24: after every operation (contact damage, overheating damage in
\* move_player, recovery nodes, restore_cpu patches, kills that add cpu, the
\* heat cost of exploits, the heat reduction of process_turn, cooling nodes,
\* the reset of level generation) player.cpu is within 0..max_cpu and
\* player.heat within 0..100.
CpuAndHeatInRange ==
    /\ player.cpu \in 0..MAX_CPU
    /\ player.heat \in 0..100

\* The third hit of the hunter (damage 25) found the player with 10 cpu left.
LastHitTookWhatWasLeft ==
    /\ level = 2
    /\ turn = 403
    /\ player.cpu = 0
    /\ \E i \in DOMAIN enemies :
          enemies[i].type = "hunter" /\ can_attack_player(enemies[i], player)

(***************************************************************************)
(* The loadout: InventoryManager.equip_exploit, reached through            *)
(* ExploitItem.use, and InventoryManager.unequip_exploit, on a new game.   *)
(***************************************************************************)
\* Player.ram_total
RAM_TOTAL == 8

\* InventoryManager.max_equipped_exploits
MAX_EQUIPPED_EXPLOITS == 5

\* InventoryManager.get_ram_usage
RECURSIVE get_ram_usage(_, _)
get_ram_usage(equipped, i) ==
    IF i > Len(equipped) THEN 0
    ELSE EXPLOITS(equipped[i]).ram + get_ram_usage(equipped, i + 1)

\* The index of key in the list equipped, 0 when it is not there.
index_of(equipped, key) ==
    IF \E i \in DOMAIN equipped : equipped[i] = key
    THEN CHOOSE i \in DOMAIN equipped :
            equipped[i] = key /\ \A j \in DOMAIN equipped : equipped[j] = key => i <= j
    ELSE 0

\* ExploitItem(key).use: InventoryManager.equip_exploit of an item that is
\* not in the inventory list (remove_item finds nothing to remove).
EquipExploit(key) ==
    /\ IF index_of(equipped_exploits, key) = 0
          /\ Len(equipped_exploits) < MAX_EQUIPPED_EXPLOITS
       THEN /\ equipped_exploits' = Append(equipped_exploits, key)
            /\ last_cmd' = [last_cmd EXCEPT !.name = "equip", !.result = "equipped"]
       ELSE /\ equipped_exploits' = equipped_exploits
            /\ last_cmd' = [last_cmd EXCEPT !.name = "equip", !.result = "refused"]
    /\ UNCHANGED <<terrain, data_patches, player, enemies, level, turn, game_over,
                   admin_spawned, uivars, network_scan_turns, items, loop>>

\* InventoryManager.unequip_exploit
UnequipExploit(key) ==
    /\ IF index_of(equipped_exploits, key) # 0
       THEN /\ equipped_exploits' = RemoveAt(equipped_exploits,
                                             index_of(equipped_exploits, key))
            /\ last_cmd' = [last_cmd EXCEPT !.name = "unequip", !.result = "unequipped"]
       ELSE /\ equipped_exploits' = equipped_exploits
            /\ last_cmd' = [last_cmd EXCEPT !.name = "unequip", !.result = "refused"]
    /\ UNCHANGED <<terrain, data_patches, player, enemies, level, turn, game_over,
                   admin_spawned, uivars, network_scan_turns, items, loop>>

InitLoadout == InitFrom(LevelA)

NextLoadout ==
    \/ \E key \in ExploitKeys : EquipExploit(key)
    \/ \E key \in ExploitKeys : UnequipExploit(key)

SpecLoadout == InitLoadout /\ [][NextLoadout]_vars

\* C25: the RAM of the equipped exploits never exceeds the player's ram_total
\* (8): an equip that would exceed it is refused.
RamWithinBudget == get_ram_usage(equipped_exploits, 1) <= RAM_TOTAL

(***************************************************************************)
(* Level generation on its own: Game.__init__ and Game.next_level run on   *)
(* a family of draws.  Every draw lies in the range its random.randint     *)
(* call samples from (rooms 3..MAP_WIDTH - w - 3, nodes 5..45, patches     *)
(* 3..47, sentinels 8..42, patrol steps of 2..5 cells along an axis).      *)
(***************************************************************************)
\* The first candidate lies in the spawn area and is rejected: no room.
GenRooms ==
    { << <<3, 3, 4, 4>> >>,
      << <<13, 18, 5, 5>>, <<36, 36, 5, 5>> >>,
      << <<38, 38, 6, 6>>, <<20, 8, 4, 4>> >> }

GenShadows ==
    { << <<40, 40>>, <<21, 21>> >>,
      << <<30, 30>>, <<13, 20>> >> }

GenNodes ==
    { << [pos |-> <<40, 40>>, cooling |-> TRUE] >>,
      << [pos |-> <<30, 30>>, cooling |-> FALSE], [pos |-> <<6, 6>>, cooling |-> TRUE] >> }

GenPatches ==
    { << [pos |-> <<30, 30>>, effect |-> "restore_cpu"] >>,
      << [pos |-> <<21, 21>>, effect |-> "reduce_detection"],
         [pos |-> <<40, 41>>, effect |-> "speed_boost"] >> }

GenEnemies ==
    { << [pos |-> <<40, 40>>, type |-> "scanner", legs |-> <<>>] >>,
      << [pos |-> <<10, 20>>, type |-> "patrol",
          legs |-> << << <<3, 0>> >>, << <<3, 0>> >>, << <<3, 0>> >> >>] >>,
      << [pos |-> <<10, 20>>, type |-> "patrol",
          legs |-> << << <<0, 3>> >>, << <<2, 0>> >>, << <<0, -4>> >> >>],
         [pos |-> <<41, 41>>, type |-> "bot", legs |-> <<>>] >> }

GenSeeds ==
    { [rooms |-> r, shadows |-> s, nodes |-> n, patches |-> p, enemies |-> e] :
        r \in GenRooms, s \in GenShadows, n \in GenNodes, p \in GenPatches,
        e \in GenEnemies }

InitGen == \E seed \in GenSeeds : InitFrom(Constructed(1, seed))

\* Game.next_level with the draws of the new level taken from GenSeeds
GenNextLevel ==
    /\ ~game_over
    /\ level' = level + 1
    /\ IF level + 1 > MAX_LEVEL
       THEN /\ game_over' = TRUE
            /\ SetG(G)
            /\ UNCHANGED terrain
       ELSE /\ \E seed \in GenSeeds : SetLevel(G, generate_map(level + 1, seed, gateway))
            /\ UNCHANGED game_over
    /\ last_cmd' = [last_cmd EXCEPT !.name = "next_level",
                                    !.result = IF level + 1 > MAX_LEVEL THEN "complete"
                                               ELSE "generated"]
    /\ UNCHANGED <<uivars, equipped_exploits, loop>>

NextGen == GenNextLevel

SpecGen == InitGen /\ [][NextGen]_vars

\* The cells holding a feature tile or a pickup
FeatureTiles == cooling_nodes \cup cpu_recovery_nodes \cup DOMAIN data_patches

\* C26: on every generated map the wall cells, the shadow cells and the cells
\* holding a feature tile or a pickup are pairwise disjoint.
TileClassesExclusive ==
    /\ walls \cap shadows = {}
    /\ walls \cap FeatureTiles = {}
    /\ shadows \cap FeatureTiles = {}
    /\ (cooling_nodes \cup cpu_recovery_nodes) \cap DOMAIN data_patches = {}
    /\ cooling_nodes \cap cpu_recovery_nodes = {}

\* C27: every border cell of the grid is a wall, on every generated map and
\* after every operation: rooms, corridors and level changes never remove one.
BorderCellsAreWalls == create_border_walls \subseteq walls

\* The corridor of level 2 was cut through the wall of its first room, and the
\* player has moved since.
CorridorCarvedInsideBorder ==
    /\ level = 2
    /\ <<14, 32>> \notin walls
    /\ <<14, 31>> \in walls
    /\ player.position # SPAWN

\* C28: the gateway a level generation leaves is a walkable cell of the new map
\* that holds no feature tile, no pickup and no sentinel, whether it was put on
\* a room centre or found by the fallback loops.
GatewayOnFreeWalkableCell ==
    last_cmd.name \in {"init", "next_level"} /\ ~game_over =>
        /\ gateway # None
        /\ is_valid_position(walls, gateway)
        /\ gateway \notin FeatureTiles
        /\ get_enemy_at(enemies, gateway) = 0

\* C29: every patrol route level generation hands out has 3 to 8 waypoints, and
\* each waypoint is an in-bounds walkable cell, the waypoints added to reach
\* the minimum length included.
PatrolRoutesWalkable ==
    last_cmd.name \in {"init", "next_level"} =>
        \A i \in DOMAIN enemies :
            IsPatrol(enemies[i]) =>
                LET route == enemies[i].patrol_points
                IN /\ Len(route) \in 3..8
                   /\ \A k \in DOMAIN route :
                         /\ is_valid(route[k], MAP_WIDTH, MAP_HEIGHT)
                         /\ is_valid_position(walls, route[k])

(***************************************************************************)
(* src/artifacts/dungeon-gen-v3.py: StealthDungeonGenerator.  Its map      *)
(* (self.map, 1 = wall) is held in the variable walls as the set of cells  *)
(* <<x, y>> whose entry is 1; the operators below work on the set of open  *)
(* cells.  The generator has no other state: the remaining variables keep  *)
(* their initial values.                                                   *)
(***************************************************************************)
DG_WIDTH == 50
DG_HEIGHT == 50
DG_START == <<1, 1>>
DG_END == <<48, 48>>

dg_cells == (0..(DG_WIDTH - 1)) \X (0..(DG_HEIGHT - 1))

dg_interior(c) ==
    /\ 1 <= c[2] /\ c[2] < DG_HEIGHT - 1
    /\ 1 <= c[1] /\ c[1] < DG_WIDTH - 1

\* StealthDungeonGenerator._room_overlaps
dg_room_overlaps(rooms, x, y, w, h) ==
    \E k \in DOMAIN rooms :
        LET r == rooms[k]
        IN ~(x + w <= r[1] \/ x >= r[1] + r[3] \/ y + h <= r[2] \/ y >= r[2] + r[4])

\* StealthDungeonGenerator._carve_room: the cells it opens
dg_carve_room(r) ==
    {c \in (r[1]..(r[1] + r[3] - 1)) \X (r[2]..(r[2] + r[4] - 1)) : dg_interior(c)}

\* The first loop of _create_rooms over its candidates <<x, y, w, h>>
RECURSIVE dg_main_rooms(_, _, _, _)
dg_main_rooms(num_rooms, draws, i, rooms) ==
    IF ~(Len(rooms) < num_rooms /\ i <= Len(draws) /\ i <= 300) THEN rooms
    ELSE LET d == draws[i]
         IN IF ~dg_room_overlaps(rooms, d[1] - 1, d[2] - 1, d[3] + 1, d[4] + 1)
            THEN dg_main_rooms(num_rooms, draws, i + 1, Append(rooms, d))
            ELSE dg_main_rooms(num_rooms, draws, i + 1, rooms)

\* The second loop of _create_rooms (50 candidates of size 2..4)
RECURSIVE dg_gap_rooms(_, _, _)
dg_gap_rooms(draws, i, rooms) ==
    IF ~(i <= Len(draws) /\ i <= 50) THEN rooms
    ELSE LET d == draws[i]
         IN IF ~dg_room_overlaps(rooms, d[1], d[2], d[3], d[4])
            THEN dg_gap_rooms(draws, i + 1, Append(rooms, d))
            ELSE dg_gap_rooms(draws, i + 1, rooms)

\* StealthDungeonGenerator._create_rooms: the rooms it returns
dg_create_rooms(seed) ==
    dg_gap_rooms(seed.gap, 1, dg_main_rooms(seed.num_rooms, seed.main, 1, <<>>))

\* StealthDungeonGenerator._carve_h_corridor
dg_carve_h_corridor(x1, x2, y, width) ==
    {c \in (Min2(x1, x2)..Max2(x1, x2)) \X (y..(y + width - 1)) : dg_interior(c)}

\* StealthDungeonGenerator._carve_v_corridor
dg_carve_v_corridor(y1, y2, x, width) ==
    {c \in (x..(x + width - 1)) \X (Min2(y1, y2)..Max2(y1, y2)) : dg_interior(c)}

\* StealthDungeonGenerator._create_corridor; d holds its two random draws
dg_create_corridor(room1, room2, d) ==
    LET x1 == room1[1] + (room1[3] \div 2)
        y1 == room1[2] + (room1[4] \div 2)
        x2 == room2[1] + (room2[3] \div 2)
        y2 == room2[2] + (room2[4] \div 2)
    IN IF d.h_first
       THEN dg_carve_h_corridor(x1, x2, y1, d.width) \cup
            dg_carve_v_corridor(y1, y2, x2, d.width)
       ELSE dg_carve_v_corridor(y1, y2, x1, d.width) \cup
            dg_carve_h_corridor(x1, x2, y2, d.width)

dg_center_dist(a, b) ==
    Abs((a[1] + (a[3] \div 2)) - (b[1] + (b[3] \div 2))) +
    Abs((a[2] + (a[4] \div 2)) - (b[2] + (b[4] \div 2)))

\* StealthDungeonGenerator._connect_rooms: the cells its corridors open.  The
\* strict comparison keeps the first closest pair in loop order.
RECURSIVE dg_connect_rooms(_, _, _)
dg_connect_rooms(connected, unconnected, d) ==
    IF unconnected = <<>> THEN {}
    ELSE LET pairs == (DOMAIN connected) \X (DOMAIN unconnected)
             dist(p) == dg_center_dist(connected[p[1]], unconnected[p[2]])
             best == CHOOSE p \in pairs :
                        \A q \in pairs :
                            \/ dist(p) < dist(q)
                            \/ /\ dist(p) = dist(q)
                               /\ (p[1] < q[1] \/ (p[1] = q[1] /\ p[2] <= q[2]))
         IN dg_create_corridor(connected[best[1]], unconnected[best[2]], d) \cup
            dg_connect_rooms(Append(connected, unconnected[best[2]]),
                             RemoveAt(unconnected, best[2]), d)

\* StealthDungeonGenerator._add_extra_paths: picks holds the pairs of rooms
\* random.choice returned
dg_add_extra_paths(rooms, seed) ==
    IF Len(rooms) < 3 THEN {}
    ELSE UNION { IF seed.picks[k][1] # seed.picks[k][2]
                 THEN dg_create_corridor(rooms[seed.picks[k][1]],
                                         rooms[seed.picks[k][2]], seed.corridor)
                 ELSE {}
                 : k \in 1..Min2(Len(seed.picks), Len(rooms) \div 2) }

\* The 4-neighbour search of StealthDungeonGenerator._is_connected
dg_neighbours(open, c) ==
    {<<c[1], c[2] + 1>>, <<c[1] + 1, c[2]>>, <<c[1], c[2] - 1>>, <<c[1] - 1, c[2]>>}
        \cap open

RECURSIVE dg_flood(_, _, _)
dg_flood(open, frontier, seen) ==
    IF frontier = {} THEN seen
    ELSE LET reached == (UNION {dg_neighbours(open, c) : c \in frontier}) \ seen
         IN dg_flood(open, reached, seen \cup reached)

\* StealthDungeonGenerator._is_connected
dg_is_connected(open, a, b) ==
    /\ a \in open
    /\ b \in open
    /\ b \in dg_flood(open, {a}, {a})

\* StealthDungeonGenerator._ensure_path_to_end from step k at <<x, y>>.  The
\* walk's draws: random() < 0.7 on the first walk.rights steps only, and
\* random() < 0.3 (widen) on every walk.wide_every-th step.
RECURSIVE dg_ensure_path_to_end(_, _, _, _)
dg_ensure_path_to_end(x, y, walk, k) ==
    IF x = DG_END[1] /\ y = DG_END[2] THEN {}
    ELSE LET nx == IF x < DG_END[1] /\ k <= walk.rights THEN x + 1
                   ELSE IF y < DG_END[2] THEN x
                   ELSE IF x < DG_END[1] THEN x + 1 ELSE x
             ny == IF x < DG_END[1] /\ k <= walk.rights THEN y
                   ELSE IF y < DG_END[2] THEN y + 1 ELSE y
             wide == walk.wide_every > 0 /\ k % walk.wide_every = 0
             carved == IF dg_interior(<<nx, ny>>)
                       THEN {<<nx, ny>>} \cup
                            (IF wide /\ nx + 1 < DG_WIDTH - 1 THEN {<<nx + 1, ny>>} ELSE {}) \cup
                            (IF wide /\ ny + 1 < DG_HEIGHT - 1 THEN {<<nx, ny + 1>>} ELSE {})
                       ELSE {}
         IN carved \cup dg_ensure_path_to_end(nx, ny, walk, k + 1)

\* The centres _add_cover_elements visits: range(3, height - 3, 5) both ways
dg_cover_centres ==
    {c \in dg_cells : /\ c[1] \in 3..(DG_WIDTH - 4) /\ c[1] % 5 = 3
                      /\ c[2] \in 3..(DG_HEIGHT - 4) /\ c[2] % 5 = 3}

\* The centres whose 5 x 5 neighbourhood holds more than 20 open cells
dg_very_open(open) ==
    {c \in dg_cover_centres :
        Cardinality((((c[1] - 2)..(c[1] + 2)) \X ((c[2] - 2)..(c[2] + 2))) \cap open) > 20}

CoverShapes == {"none", "across", "down", "corner", "ell"}

\* The cells one cover element turns into wall
dg_cover_cells(c, shape) ==
    CASE shape = "none"   -> {}
      [] shape = "across" -> {c, <<c[1] + 1, c[2]>>}
      [] shape = "down"   -> {c, <<c[1], c[2] + 1>>}
      [] shape = "corner" -> {c}
      [] shape = "ell"    -> {c, <<c[1] + 1, c[2]>>, <<c[1], c[2] + 1>>}

\* StealthDungeonGenerator._add_cover_elements: cover gives the shape drawn
\* at each very open centre.  The neighbourhoods do not overlap, so a cover
\* element never changes the count of another centre.
dg_add_cover_elements(open, cover) ==
    open \ UNION {dg_cover_cells(c, cover[c]) : c \in DOMAIN cover}

\* StealthDungeonGenerator._ensure_border_walls
dg_ensure_border_walls(open) == {c \in open : dg_interior(c)}

\* generate() up to the connectivity check (lines 16-26)
dg_carved(seed) ==
    LET rooms == dg_create_rooms(seed)
    IN (UNION {dg_carve_room(rooms[k]) : k \in DOMAIN rooms}) \cup
       (IF Len(rooms) < 2 THEN {}
        ELSE dg_connect_rooms(<<rooms[1]>>, Tail(rooms), seed.corridor)) \cup
       dg_add_extra_paths(rooms, seed) \cup {DG_START, DG_END}

\* generate() lines 29-30
dg_verified(open, walk) ==
    IF ~dg_is_connected(open, DG_START, DG_END)
    THEN open \cup dg_ensure_path_to_end(DG_START[1], DG_START[2], walk, 1)
    ELSE open

\* The draws generate() runs on
DgMainRooms ==
    { << <<6, 3, 5, 5>>, <<6, 9, 5, 5>>, <<6, 4, 5, 5>> >>,
      << <<1, 1, 5, 5>>, <<44, 44, 5, 5>>, <<44, 43, 3, 3>> >>,
      << <<10, 10, 7, 7>>, <<25, 10, 5, 5>>, <<10, 25, 5, 5>> >> }

DgCorridors == [width : {1, 2}, h_first : BOOLEAN]

DgWalks == [rights : {0, 7, 47}, wide_every : {0, 3}]

DgSeeds ==
    { [main |-> m, gap |-> << <<7, 4, 2, 2>>, <<30, 30, 3, 2>> >>, num_rooms |-> 12,
       corridor |-> c, picks |-> << <<3, 2>>, <<1, 1>>, <<2, 1>> >>, walk |-> w] :
        m \in DgMainRooms, c \in DgCorridors, w \in DgWalks }

InitArtifact ==
    InitFrom([LevelA EXCEPT !.walls = dg_cells, !.shadows = {}, !.cooling_nodes = {},
                            !.cpu_recovery_nodes = {}, !.data_patches = <<>>,
                            !.enemies = <<>>, !.gateway = None])

\* StealthDungeonGenerator.generate
DgGenerate ==
    /\ last_cmd.name = "init"
    /\ \E seed \in DgSeeds :
          LET open == dg_verified(dg_carved(seed), seed.walk)
          IN \E cover \in [dg_very_open(open) -> CoverShapes] :
                walls' = dg_cells \ dg_ensure_border_walls(dg_add_cover_elements(open, cover))
    /\ last_cmd' = [last_cmd EXCEPT !.name = "generate", !.result = "map"]
    /\ UNCHANGED <<shadows, cooling_nodes, cpu_recovery_nodes, gateway, data_patches,
                   player, enemies, level, turn, game_over, admin_spawned, uivars,
                   network_scan_turns, equipped_exploits, items, loop>>

NextArtifact == DgGenerate

SpecArtifact == InitArtifact /\ [][NextArtifact]_vars

\* C30: in the map generate() returns, the start cell (1, 1) and the end cell
\* (48, 48) are connected through open cells.
StartAndEndConnected ==
    last_cmd.name = "generate" => dg_is_connected(dg_cells \ walls, DG_START, DG_END)

(***************************************************************************)
(* The loops of level generation, one iteration per step.  loop holds the  *)
(* local variables of the loop being run; the game state stays as it was   *)
(* constructed (level 1, the walls of LevelA).                             *)
(***************************************************************************)
gamevars == <<terrain, data_patches, player, enemies, level, turn, game_over,
              admin_spawned, uivars, network_scan_turns, equipped_exploits, items,
              last_cmd>>

\* Room candidates that do not overlap one another, and one candidate in the
\* spawn area, which _is_room_valid rejects.
RoomSchedule ==
    << <<12, 12, 5, 5>>, <<22, 12, 5, 5>>, <<32, 12, 5, 5>>, <<12, 22, 5, 5>>,
       <<22, 22, 5, 5>>, <<32, 22, 5, 5>>, <<12, 32, 5, 5>>, <<22, 32, 5, 5>> >>

SpawnAreaRoom == <<3, 3, 4, 4>>

\* One iteration of the while loop of Game._generate_rooms
RoomsAttempt ==
    /\ loop.kind = "rooms"
    /\ Len(loop.rooms) < 6 + level * 2 /\ loop.attempts < 200
    /\ \E d \in {RoomSchedule[Min2(Len(loop.rooms) + 1, Len(RoomSchedule))], SpawnAreaRoom} :
          loop' = [loop EXCEPT !.attempts = @ + 1,
                               !.rooms = IF is_room_valid(d, loop.rooms)
                                         THEN Append(@, d) ELSE @]
    /\ UNCHANGED gamevars

\* Game._generate_rooms leaving its loop
RoomsReturn ==
    /\ loop.kind = "rooms"
    /\ ~(Len(loop.rooms) < 6 + level * 2 /\ loop.attempts < 200)
    /\ loop' = [kind |-> "done", of |-> "rooms", count |-> Len(loop.rooms),
                attempts |-> loop.attempts]
    /\ UNCHANGED gamevars

\* The target count and the attempt cap of the loops of _place_special_nodes,
\* _place_data_patches and _place_enemies
PlacementTarget(kind) ==
    CASE kind = "nodes"   -> 4 + level
      [] kind = "patches" -> 6 + level * 2
      [] kind = "enemies" -> NETWORK_ENEMIES(level)

PlacementCap(kind) ==
    CASE kind = "nodes"   -> 100
      [] kind = "patches" -> 150
      [] kind = "enemies" -> NETWORK_ENEMIES(level) * 20

PlacementKinds == {"nodes", "patches", "enemies"}

\* One iteration of a placement loop; valid is the outcome of its
\* _is_valid_*_placement test on the cell drawn.
PlacementAttempt ==
    /\ loop.kind \in PlacementKinds
    /\ loop.placed < PlacementTarget(loop.kind) /\ loop.attempts < PlacementCap(loop.kind)
    /\ \E valid \in BOOLEAN :
          loop' = [loop EXCEPT !.attempts = @ + 1,
                               !.placed = IF valid THEN @ + 1 ELSE @]
    /\ UNCHANGED gamevars

PlacementReturn ==
    /\ loop.kind \in PlacementKinds
    /\ ~(loop.placed < PlacementTarget(loop.kind) /\ loop.attempts < PlacementCap(loop.kind))
    /\ loop' = [kind |-> "done", of |-> loop.kind, count |-> loop.placed,
                attempts |-> loop.attempts]
    /\ UNCHANGED gamevars

\* The step sizes and directions _generate_patrol_route is run with
PatrolStepSizes == {2, 5}
PatrolStepDirs(n) == {<<0, -n>>, <<n, 0>>, <<0, n>>, <<-n, 0>>}
PatrolRouteLengths == {4, 8}
PatrolStart == <<23, 30>>

\* One iteration of the inner while loop of Game._generate_patrol_route; the
\* for loop moves to the next leg after an accepted step or 30 attempts.
PatrolAttempt ==
    /\ loop.kind = "patrol"
    /\ loop.leg < loop.route_length - 1
    /\ loop.attempts < 30
    /\ \E n \in PatrolStepSizes : \E d \in PatrolStepDirs(n) :
          LET new_pos == <<loop.current[1] + d[1], loop.current[2] + d[2]>>
              ok == /\ is_valid(new_pos, MAP_WIDTH - 3, MAP_HEIGHT - 3)
                    /\ new_pos[1] >= 3 /\ new_pos[2] >= 3
                    /\ is_valid_position(walls, new_pos)
          IN loop' = IF ok
                     THEN [loop EXCEPT !.current = new_pos, !.len = @ + 1,
                                       !.leg = @ + 1, !.attempts = 0]
                     ELSE IF loop.attempts + 1 = 30
                          THEN [loop EXCEPT !.leg = @ + 1, !.attempts = 0]
                          ELSE [loop EXCEPT !.attempts = @ + 1]
    /\ UNCHANGED gamevars

\* Game._generate_patrol_route after its legs: the minimum length branch
PatrolReturn ==
    /\ loop.kind = "patrol"
    /\ ~(loop.leg < loop.route_length - 1)
    /\ loop' = [kind |-> "done", of |-> "patrol",
                count |-> IF loop.len < 3
                          THEN loop.len + (IF PatrolStart[1] < MAP_WIDTH - 5 THEN 1 ELSE 0)
                                        + (IF PatrolStart[2] < MAP_HEIGHT - 5 THEN 1 ELSE 0)
                          ELSE loop.len,
                attempts |-> loop.leg]
    /\ UNCHANGED gamevars

\* The move of _ensure_path_to_end that never falls back on the other axis
dg_walk_move_unforced(x, y, right) ==
    IF x < DG_END[1] /\ right THEN <<x + 1, y>>
    ELSE IF y < DG_END[2] /\ ~right THEN <<x, y + 1>>
    ELSE <<x, y>>

\* The move of one iteration of StealthDungeonGenerator._ensure_path_to_end;
\* right is the outcome of random.random() < 0.7
dg_walk_move(x, y, right) ==
    IF x < DG_END[1] /\ right THEN <<x + 1, y>>
    ELSE IF y < DG_END[2] THEN <<x, y + 1>>
    ELSE IF x < DG_END[1] THEN <<x + 1, y>>
    ELSE <<x, y>>

\* The outcomes random.random() < 0.7 can have in a walk whose draws all
\* fall below 0.7 ("right"), all fall above ("down"), or fall freely ("any")
WalkDraws(draws) ==
    CASE draws = "right" -> {TRUE}
      [] draws = "down"  -> {FALSE}
      [] draws = "any"   -> BOOLEAN

\* One iteration of the while loop of _ensure_path_to_end (the cells it
\* carves do not enter the loop condition)
WalkStep ==
    /\ loop.kind = "walk"
    /\ loop.x # DG_END[1] \/ loop.y # DG_END[2]
    /\ \E right \in WalkDraws(loop.draws) :
          LET to == dg_walk_move(loop.x, loop.y, right)
          IN loop' = [loop EXCEPT !.x = to[1], !.y = to[2]]
    /\ UNCHANGED gamevars

WalkReturn ==
    /\ loop.kind = "walk"
    /\ loop.x = DG_END[1] /\ loop.y = DG_END[2]
    /\ loop' = [kind |-> "done", of |-> "walk",
                count |-> (loop.x - DG_START[1]) + (loop.y - DG_START[2]),
                attempts |-> (loop.x - DG_START[1]) + (loop.y - DG_START[2])]
    /\ UNCHANGED gamevars

\* The closest pair StealthDungeonGenerator._connect_rooms picks
dg_closest_pair(connected, unconnected) ==
    LET pairs == (DOMAIN connected) \X (DOMAIN unconnected)
        dist(p) == dg_center_dist(connected[p[1]], unconnected[p[2]])
    IN CHOOSE p \in pairs :
          \A q \in pairs :
              \/ dist(p) < dist(q)
              \/ /\ dist(p) = dist(q)
                 /\ (p[1] < q[1] \/ (p[1] = q[1] /\ p[2] <= q[2]))

\* One iteration of the while loop of StealthDungeonGenerator._connect_rooms
ConnectStep ==
    /\ loop.kind = "connect"
    /\ loop.unconnected # <<>>
    /\ LET best == dg_closest_pair(loop.connected, loop.unconnected)
       IN loop' = [loop EXCEPT
                      !.connected = Append(@, loop.unconnected[best[2]]),
                      !.unconnected = RemoveAt(@, best[2])]
    /\ UNCHANGED gamevars

ConnectReturn ==
    /\ loop.kind = "connect"
    /\ loop.unconnected = <<>>
    /\ loop' = [kind |-> "done", of |-> "connect", count |-> Len(loop.connected),
                attempts |-> Len(loop.connected) - 1]
    /\ UNCHANGED gamevars

LoopStarts ==
    {[kind |-> "rooms", rooms |-> <<>>, attempts |-> 0]} \cup
    {[kind |-> k, placed |-> 0, attempts |-> 0] : k \in PlacementKinds} \cup
    {[kind |-> "patrol", route_length |-> n, leg |-> 0, attempts |-> 0,
      current |-> PatrolStart, len |-> 1] : n \in PatrolRouteLengths} \cup
    {[kind |-> "walk", x |-> DG_START[1], y |-> DG_START[2], draws |-> d] :
        d \in {"right", "down", "any"}} \cup
    {[kind |-> "connect", connected |-> <<rooms[1]>>, unconnected |-> Tail(rooms)] :
        rooms \in DgMainRooms}

InitLoops ==
    /\ walls = LevelA.walls
    /\ shadows = LevelA.shadows
    /\ cooling_nodes = LevelA.cooling_nodes
    /\ cpu_recovery_nodes = LevelA.cpu_recovery_nodes
    /\ data_patches = LevelA.data_patches
    /\ gateway = LevelA.gateway
    /\ player = LevelA.player
    /\ enemies = LevelA.enemies
    /\ level = LevelA.level
    /\ turn = LevelA.turn
    /\ game_over = LevelA.game_over
    /\ admin_spawned = LevelA.admin_spawned
    /\ targeting_mode = LevelA.targeting_mode
    /\ targeting_exploit = LevelA.targeting_exploit
    /\ cursor_position = LevelA.cursor_position
    /\ network_scan_turns = LevelA.network_scan_turns
    /\ equipped_exploits = LevelA.equipped_exploits
    /\ items = LevelA.items
    /\ last_cmd = [name |-> "init", result |-> "init", n |-> 0]
    /\ loop \in LoopStarts

NextLoops ==
    \/ RoomsAttempt
    \/ RoomsReturn
    \/ PlacementAttempt
    \/ PlacementReturn
    \/ PatrolAttempt
    \/ PatrolReturn
    \/ WalkStep
    \/ WalkReturn
    \/ ConnectStep
    \/ ConnectReturn

\* A running loop takes its next iteration: the code is sequential.
SpecLoops == InitLoops /\ [][NextLoops]_vars /\ WF_vars(NextLoops)

\* C31: every loop of level generation ends: the sampling loops at their
\* target count or attempt cap, the greedy connection loop with no room left
\* unconnected, the repair walk on its target cell.
GenerationLoopsTerminate == <>(loop.kind = "done")

\* The room loop ended at its attempt cap with fewer rooms than its target.
RoomLoopHitItsCap ==
    /\ loop.kind = "done" /\ loop.of = "rooms"
    /\ loop.attempts = 200
    /\ loop.count < 6 + level * 2

(***************************************************************************)
(* Observation in a room set up by hand, as src/test_wall_vision.py does:  *)
(* the walls are cleared, a sentinel and the intruder are put on cells of  *)
(* the room, walls are added between them.                                 *)
(***************************************************************************)
\* The outline of the 10 x 10 room with corners (0, 0) and (9, 9)
RoomOutline == create_room(<<0, 0, 10, 10>>)

RoomInterior == (1..8) \X (1..8)

SENTINEL_CELL == <<1, 4>>

InitVision ==
    \E t \in EnemyTypeNames :
        InitFrom([LevelA EXCEPT !.walls = RoomOutline, !.shadows = {},
                                !.cooling_nodes = {}, !.cpu_recovery_nodes = {},
                                !.data_patches = <<>>, !.gateway = None,
                                !.enemies = <<NewEnemy(SENTINEL_CELL, t)>>,
                                !.player.position = <<1, 1>>])

\* game.player.position = Position(x, y)
PlaceIntruder(pos) ==
    /\ pos \notin walls
    /\ pos # SENTINEL_CELL
    /\ player' = [player EXCEPT !.position = pos]
    /\ last_cmd' = [last_cmd EXCEPT !.name = "place", !.result = "intruder"]
    /\ UNCHANGED <<terrain, data_patches, enemies, level, turn, game_over,
                   admin_spawned, uivars, network_scan_turns, equipped_exploits, items,
                   loop>>

\* game.game_map.walls.add((x, y))
InsertWall(c) ==
    /\ c \notin walls
    /\ c # SENTINEL_CELL /\ c # player.position
    /\ walls' = walls \cup {c}
    /\ last_cmd' = [last_cmd EXCEPT !.name = "place", !.result = "wall"]
    /\ UNCHANGED <<shadows, cooling_nodes, cpu_recovery_nodes, gateway, data_patches,
                   player, enemies, level, turn, game_over, admin_spawned, uivars,
                   network_scan_turns, equipped_exploits, items, loop>>

NextVision ==
    \/ \E pos \in RoomInterior : PlaceIntruder(pos)
    \/ InsertWall(<<1, 3>>)

SpecVision == InitVision /\ [][NextVision]_vars

\* C32: in the otherwise empty room a sentinel with vision 3 at (1, 4)
\* observes the intruder at (1, 1); with a wall at (1, 3) and the intruder at
\* (1, 6) the sentinel at (1, 4) does not observe the intruder.
WallAtOneThreeHidesIntruder ==
    LET e == enemies[1]
    IN /\ (/\ walls = RoomOutline
           /\ player.position = <<1, 1>>
           /\ ENEMY_TYPES(e.type).vision = 3)
          => can_see_player(e, player, walls, shadows)
       /\ (/\ walls = RoomOutline \cup {<<1, 3>>}
           /\ player.position = <<1, 6>>)
          => ~can_see_player(e, player, walls, shadows)

(***************************************************************************)
(* The speed boost harness of test_speed_boost.py: an open map without     *)
(* sentinels, the intruder at (10, 10), the speed boost counter assigned   *)
(* directly (5) or left at 0, then movement keys only.                     *)
(***************************************************************************)
SPEED_START == <<10, 10>>

SpeedBoostTurns == {0, 5}

InitSpeed ==
    \E b \in SpeedBoostTurns :
       InitFrom([LevelA EXCEPT !.walls = {}, !.shadows = {},
                               !.cooling_nodes = {}, !.cpu_recovery_nodes = {},
                               !.data_patches = <<>>, !.gateway = None,
                               !.enemies = <<>>,
                               !.player.position = SPEED_START,
                               !.player.effects.speed_boost_turns = b])

NextSpeed == \E d \in MoveDirs : MovePlayer(d)

SpecSpeed == InitSpeed /\ [][NextSpeed]_vars

\* C33: while the speed boost is active the movement commands come in
\* pairs: the first command of a pair (here the commands with an even
\* number of commands before them, every command being a successful move)
\* leaves the turn counter unchanged and the second advances it by one;
\* without speed boost every successful move command advances the turn
\* counter by exactly one.
SpeedBoostPairsMoveCommands ==
    [][(last_cmd'.name = "move" /\ last_cmd'.result = "moved")
          => turn' = IF player.effects.speed_boost_turns > 0 /\ last_cmd.n % 2 = 0
                     THEN turn
                     ELSE turn + 1]_vars

\* The duration announced for each timed pickup effect
\* (Game._randomize_data_patches, DataPatch._apply_effect)
TimedPickupTurns(effect_key) ==
    CASE effect_key = "speed_boost" -> 10
      [] effect_key = "enhanced_vision" -> 15
      [] effect_key = "exploit_efficiency" -> 8

TimedPickupCounter(p, effect_key) ==
    CASE effect_key = "speed_boost" -> p.effects.speed_boost_turns
      [] effect_key = "enhanced_vision" -> p.effects.enhanced_vision_turns
      [] effect_key = "exploit_efficiency" -> p.effects.exploit_efficiency_turns

\* NearScanner when the patch picked up at (31, 36) has a timed effect
\* (Game._randomize_data_patches deals the six effects to the colours at random).
TimedPickupEffects == {"speed_boost", "enhanced_vision", "exploit_efficiency"}

InitPickup ==
    \E e \in TimedPickupEffects :
       InitFrom([NearScanner EXCEPT
                    !.items = << [item_type |-> "data_patch", effect |-> e] >>])

NextPickup ==
    \/ UseItem(1)
    \/ Wait
    \/ \E d \in MoveDirs : MovePlayer(d)

SpecPickup == InitPickup /\ [][NextPickup]_vars

\* C34: using a pickup whose effect is speed boost, enhanced vision or
\* exploit efficiency sets the corresponding timed-effect counter of the
\* intruder to 10, 15 or 8 turns.
TimedPickupSetsCounter ==
    [][(/\ last_cmd'.name = "use_item"
        /\ last_cmd'.result \in TimedPickupEffects)
          => TimedPickupCounter(player', last_cmd'.result)
                = TimedPickupTurns(last_cmd'.result)]_vars

\* The turns an area ability disables the sentinels in its range for
\* (ExploitSystem._execute_system_crash, _execute_emp_burst)
DisableTurns(key) == IF key = "system_crash" THEN 4 ELSE 6

AreaDisablers == {"system_crash", "emp_burst"}

\* Sentinel i spends the Scheduler run of the step disabled: it was disabled
\* when the run began, by an earlier command or by the area ability that
\* drives this run.
DisabledInRun(i) ==
    \/ enemies[i].disabled_turns > 0
    \/ /\ last_cmd'.name \in AreaDisablers
       /\ enemies'[i].disabled_turns = DisableTurns(last_cmd'.name) - 1

\* C35: a sentinel disabled by an area ability does not observe, move or
\* deal contact damage in any of the Scheduler runs it spends disabled, the
\* run driven by the ability included.
DisabledSentinelIsInert ==
    [][(SchedulerRan /\ last_cmd'.name \in QuietCommands \cup AreaDisablers)
          => \A i \in DOMAIN enemies :
                DisabledInRun(i)
                   => /\ enemies'[i].position = enemies[i].position
                      /\ ~(enemies[i].disabled_turns > 0 /\ Observed(i))
                      /\ enemies'[i].state \in {"unaware", enemies[i].state}
                      /\ ~can_attack_player(enemies'[i], player')]_vars

(***************************************************************************)
(* Data Mimic wearing off in view of the scanner                           *)
(***************************************************************************)
\* The Scheduler runs after a Data Mimic whose effect is still counted
MimicRunsLeft == 0..4

\* The player used data_mimic k = 5 - left runs ago (left < 5) and stands
\* where the scanner of level A would see a visible player; the scanner has
\* not noticed anything so far.  left = 0: no Data Mimic is active.
MimicFading(left) ==
    [NearScanner EXCEPT
        !.player.heat = 20, !.player.effects.data_mimic_turns = left,
        !.enemies[1].state = "unaware", !.enemies[1].alert_timer = 0]

InitMimic == \E left \in MimicRunsLeft : InitFrom(MimicFading(left))

NextMimic ==
    \/ UseExploit("data_mimic")
    \/ Wait
    \/ \E d \in MoveDirs : MovePlayer(d)

SpecMimic == InitMimic /\ [][NextMimic]_vars

\* C36: after Data Mimic no sentinel observes the intruder in the
\* observation check of any of the next 5 Scheduler runs: the run driven by
\* the ability and the four runs that begin with 4, 3, 2 and 1 on the
\* counter.
MimicHidesForFiveRuns ==
    [][(/\ SchedulerRan
        /\ \/ last_cmd'.name = "data_mimic"
           \/ last_cmd'.name \in QuietCommands /\ player.effects.data_mimic_turns > 0)
          => \A i \in DOMAIN enemies : ~Observed(i)]_vars

\* The cell sentinel f (as the awareness check left it) moves toward in
\* Enemy.move, or None when its movement is not a 'move toward' step.
chase_target(f, p) ==
    LET mv == ENEMY_TYPES(f.type).movement
    IN CASE mv \in {"random", "track"} /\ f.state = "hostile" -> p.position
         [] mv = "linear" /\ f.state = "hostile" /\ f.patrol_points # <<>> -> p.position
         [] mv = "seek" /\ f.state = "hostile" -> f.last_seen_player
         [] OTHER -> None

\* Sentinel e has a move opportunity in the next Scheduler run.
MovesThisRun(e) == e.disabled_turns = 0 /\ e.move_cooldown - 1 <= 0

\* C37: the step of a Hostile sentinel toward its target never increases its
\* Chebyshev distance to the target, and a Hostile chasing sentinel that is
\* adjacent to the intruder when it moves is still adjacent afterwards and
\* deals contact damage in that run.
ChaseStepKeepsContact ==
    [][AwarenessRan
          => \A i \in DOMAIN enemies :
                LET e == enemies[i]
                    f == enemies'[i]
                    target == chase_target(f, player')
                IN (MovesThisRun(e) /\ target # None)
                      => /\ distance_to(f.position, target) <= distance_to(e.position, target)
                         /\ distance_to(e.position, player'.position) <= 1
                               => /\ distance_to(f.position, player'.position) <= 1
                                  /\ can_attack_player(f, player')]_vars

(***************************************************************************)
(* A level whose generation placed a bot on the cell next to a scanner     *)
(***************************************************************************)
\* The draws of SeedA with other sentinel candidates: a scanner at (30, 38)
\* and a bot at (31, 38), both accepted by _is_valid_enemy_placement.
SeedE ==
    [SeedA EXCEPT !.enemies = << [pos |-> <<30, 38>>, type |-> "scanner", legs |-> <<>>],
                                 [pos |-> <<31, 38>>, type |-> "bot", legs |-> <<>>] >>]

InitCrowd == InitFrom(Constructed(1, SeedE))

NextCrowd ==
    \/ Wait
    \/ \E d \in MoveDirs : MovePlayer(d)

SpecCrowd == InitCrowd /\ [][NextCrowd]_vars

\* C38: no two sentinels occupy the same cell.
NoTwoSentinelsShareCell ==
    \A i, j \in DOMAIN enemies :
        i # j => enemies[i].position # enemies[j].position

\* C39: the intruder always stands on a cell that is inside the grid and
\* not a wall, and the spawn cell of the level is such a cell too.
IntruderOnWalkableCell ==
    /\ is_valid(player.position, MAP_WIDTH, MAP_HEIGHT)
    /\ is_valid_position(walls, player.position)
    /\ is_valid_position(walls, SPAWN)

\* The gateway was entered on level 1 and the intruder has left the spawn
\* cell of level 2.
IntruderMovedOnSecondLevel ==
    /\ level = 2
    /\ turn > 600
    /\ last_cmd.name \in {"move", "shadow_step"}
    /\ last_cmd.result \notin {"blocked", "rejected", "gateway"}
    /\ player.position # SPAWN

(***************************************************************************)
(* Loadout changes with exploit items in the inventory, as set up in       *)
(* test_unified_inventory.py: add_item(ExploitItem(key)) for abilities     *)
(* that are owned but not equipped.                                        *)
(***************************************************************************)
SpareExploits == <<"data_mimic", "log_wiper">>

exploit_item(key) == [item_type |-> "exploit", exploit_key |-> key]

InitInventory ==
    InitFrom([LevelA EXCEPT
                 !.items = [i \in DOMAIN SpareExploits |-> exploit_item(SpareExploits[i])]])

\* ExploitItem.use on the inventory item at index i: InventoryManager.equip_exploit
EquipFromInventory(i) ==
    /\ i \in DOMAIN items
    /\ items[i].item_type = "exploit"
    /\ IF index_of(equipped_exploits, items[i].exploit_key) = 0
          /\ Len(equipped_exploits) < MAX_EQUIPPED_EXPLOITS
       THEN /\ equipped_exploits' = Append(equipped_exploits, items[i].exploit_key)
            /\ items' = RemoveAt(items, i)
            /\ last_cmd' = [last_cmd EXCEPT !.name = "equip", !.result = "equipped"]
       ELSE /\ UNCHANGED <<equipped_exploits, items>>
            /\ last_cmd' = [last_cmd EXCEPT !.name = "equip", !.result = "refused"]
    /\ UNCHANGED <<terrain, data_patches, player, enemies, level, turn, game_over,
                   admin_spawned, uivars, network_scan_turns, loop>>

NextInventory ==
    \/ \E i \in DOMAIN SpareExploits : EquipFromInventory(i)
    \/ \E key \in ExploitKeys : UnequipExploit(key)

SpecInventory == InitInventory /\ [][NextInventory]_vars

\* The abilities the intruder owns: the three equipped at the start and the
\* ones added to the inventory.
OwnedExploits ==
    {"shadow_step", "network_scan", "code_injection"}
       \cup {SpareExploits[i] : i \in DOMAIN SpareExploits}

InInventory(key) ==
    \E i \in DOMAIN items :
        items[i].item_type = "exploit" /\ items[i].exploit_key = key

\* C40: loadout changes conserve the abilities: every owned ability is
\* either equipped or in the inventory, never both and never neither, so an
\* ability that was equipped and then unequipped is in the inventory again.
OwnedExploitsConserved ==
    \A key \in OwnedExploits :
        (index_of(equipped_exploits, key) # 0) # InInventory(key)

====
